---- MODULE Spec2Model ----
(***************************************************************************)
(* Model of the pacing scheduler of the home-timeline reply session        *)
(* (src/src/main.py, TwitterOrchestrator._run_home_timeline_replies) and   *)
(* of the guarded reply generation (src/src/features/publisher/            *)
(* reply_generator.py, generate_guarded_reply), with should_apply_style_   *)
(* profile, the backend fallback of TextGenerator.generate_text            *)
(* (src/src/core/llm_service/generator.py), the action decision            *)
(* _decide_competitor_action, the account tasks of run and the action      *)
(* flows of _process_account and the pacing parameters of a session        *)
(* (src/src/main.py).  Each component has its                              *)
(* own specification; the variables of the others stay at their idle       *)
(* values.                                                                 *)
(*                                                                         *)
(* Time is in whole seconds, measured from the start of the orchestrator   *)
(* process.  Every awaited call (fetch, generation, executor, sleep) lets  *)
(* the clock advance by a duration drawn from Durations.                   *)
(***************************************************************************)
EXTENDS Integers, Sequences, FiniteSets, TLC

VARIABLES
    \* ---- scheduler (one account task) ----
    pc,                     \* position of the account task in the session
    now,                    \* the wall clock, datetime.now(timezone.utc)
    replies_per_hour, max_hours, min_delay, max_delay,
    session_end, current_hour_start,
    replies_sent_total, replies_this_hour,
    next_reply_earliest,
    attempt_completed_at,   \* history: when the latest executor call returned
    scored_candidates,      \* the candidates of the batch not yet walked
    candidate,              \* the candidate being processed
    made_reply_this_batch,
    processed_action_keys,  \* in-memory dedup set of the orchestrator
    store,                  \* persisted dedup store (survives restarts)
    execLog,                \* history: executor invocations of this session
    sessions,               \* number of orchestrator processes started
    \* ---- generate_guarded_reply (one call) ----
    gpc,                    \* position of the call
    text_content,           \* tweet.text_content
    retry_limit,
    attempt, last_error,
    feedback,               \* the feedback of the latest instruction
    calls,                  \* history: llm_service.generate_structured calls
    last_response,          \* history: what the latest call returned
    result,                 \* what generate_guarded_reply returned
    style_summary, persona_handle, system_prompt, llm_settings,
    banned_terms,           \* the merged list of line 276
    prepared_inline_media,
    request,                \* history: the arguments of the latest call
    \* ---- should_apply_style_profile (one call) ----
    stpc,                   \* position of the call
    style_text,             \* tweet.text_content of the candidate
    style_keywords,         \* the account's style keywords
    use_style_profile,      \* what the call returned
    \* ---- TextGenerator.generate_text (one call) ----
    rpc,                    \* position of the call
    service_preference_order,
    clients,                \* the services whose client was instantiated
    deployment_name,        \* whether azure has a deployment name
    service_preference,     \* the caller's preferred service
    services_to_try,
    service_index,          \* position of the for loop in services_to_try
    tried,                  \* history: the services the loop went through
    generated,              \* what generate_text returned
    \* ---- _decide_competitor_action (one call) ----
    dpc,                    \* position of the call
    decision_enabled, use_sentiment,
    interaction_type,       \* competitor_post_interaction_type
    account_thresholds,     \* decision_*_min of the account's action_config
    global_thresholds,      \* thresholds of the engagement_decision settings
    tweet_thresholds,       \* thresholds carried by the candidate tweet
    decision_thresholds,    \* quote_min, retweet_min, repost_min
    candidate_sentiment,    \* the sentiment of the candidate tweet
    structured,             \* what analyze_tweet_structured returned
    fallback_relevance,     \* what score_relevance returned
    fallback_sentiment,     \* the local sentiment of the fallback
    classifier,             \* what classify_sentiment did in the fallback
    decided,                \* the action kind returned
    \* ---- run: the account tasks ----
    run_pc,                 \* position of run
    account_config,         \* per account: what accounts_data holds
    task_pc,                \* per account: position of _process_account
    awaits,                 \* per account: awaits passed by the processing
    fault,                  \* per account, history: the fault of the task
    reported,               \* per account, history: the fault was logged
    \* ---- the action flows of one account task ----
    fpc,                    \* position of the flow
    flow_candidate,         \* the action on its way to the executor
    flow_last,              \* history: the latest candidate dealt with
    flow_actions,           \* successful actions of the run
    \* ---- the pacing parameters of a session ----
    ppc,                    \* position of the derivation
    action_config,          \* the configured values
    pacing,                 \* spacing_min_seconds and spacing_max_seconds
    delay_drawn,            \* history: next_delay, the delay drawn at line 486
    \* ---- extract_keywords_from_texts (one call) ----
    kpc,                    \* position of the call
    keyword_text,           \* the text supplied
    keyword_limit,          \* max_keywords
    top_tokens,             \* the list returned
    \* ---- build_style_snapshot (one call) ----
    snap_pc,                \* position of the call
    snap_tweets,            \* the tweets supplied, newest first
    max_items,
    style_context_text,     \* the context text returned
    \* ---- the account tasks and the key set they share ----
    key_task,               \* per account: the candidate the task deals with
    key_records,            \* history: who recorded which key, for which tweet
    key_skipped,            \* history: the latest candidate passed over
    \* ---- the community engagement of one run ----
    cpc,                    \* position of the loop over community_tweets
    community_config,       \* the caps and switches of current_action_config
    community_tweets,       \* the tweets of the scrape not yet walked
    ct,                     \* the tweet the iteration deals with
    total_community_actions,
    replies_made_in_community,
    \* ---- reply_to_tweet (one call) ----
    hpc,                    \* position of the call
    primary_handle,         \* the handle of the account, or NoHandle
    driver_page,            \* the page the browser shows
    conversation_links,     \* reply links by the handle in the target conversation
    other_links,            \* links by the handle on the page shown at the call
    pre_existing_replies,
    reply_posted,           \* the platform accepted the submission
    links_seen,             \* history: the links the verification collected
    handler_result          \* what the call returned

schedVars == <<pc, now, replies_per_hour, max_hours, min_delay, max_delay,
               session_end, current_hour_start, replies_sent_total,
               replies_this_hour, next_reply_earliest, scored_candidates,
               candidate, made_reply_this_batch, processed_action_keys, store,
               execLog, sessions, attempt_completed_at>>

\* what a call of generate_guarded_reply is given and never assigns in its loop
guardArgs == <<style_summary, persona_handle, system_prompt, llm_settings,
               banned_terms, prepared_inline_media>>

guardVars == <<gpc, text_content, retry_limit, attempt, last_error, feedback,
               calls, last_response, result, guardArgs, request>>

styleVars == <<stpc, style_text, style_keywords, use_style_profile>>

routerVars == <<rpc, service_preference_order, clients, deployment_name,
                service_preference, services_to_try, service_index, tried, generated>>

thresholdSources == <<account_thresholds, global_thresholds, tweet_thresholds>>

decideVars == <<dpc, thresholdSources, decision_enabled, use_sentiment, interaction_type,
                decision_thresholds, candidate_sentiment, structured,
                fallback_relevance, fallback_sentiment, classifier, decided>>

runVars == <<run_pc, account_config, task_pc, awaits, fault, reported>>

flowVars == <<fpc, flow_candidate, flow_last, flow_actions>>

pacingVars == <<ppc, action_config, pacing, delay_drawn>>

keywordVars == <<kpc, keyword_text, keyword_limit, top_tokens>>

snapshotVars == <<snap_pc, snap_tweets, max_items, style_context_text>>

sharedVars == <<key_task, key_records, key_skipped>>

communityVars == <<cpc, community_config, community_tweets, ct, total_community_actions,
                   replies_made_in_community>>

handlerVars == <<hpc, primary_handle, driver_page, conversation_links, other_links,
                 pre_existing_replies, reply_posted, links_seen, handler_result>>

\* the session state apart from the dedup set and its store
sessionVars == <<pc, now, replies_per_hour, max_hours, min_delay, max_delay,
                 session_end, current_hour_start, replies_sent_total,
                 replies_this_hour, next_reply_earliest, scored_candidates,
                 candidate, made_reply_this_batch, execLog, sessions,
                 attempt_completed_at>>

vars == <<schedVars, guardVars, styleVars, routerVars, decideVars, runVars, flowVars,
          pacingVars, keywordVars, snapshotVars, sharedVars, communityVars, handlerVars>>

\* what the actions of one component leave alone
notSched == <<guardVars, styleVars, routerVars, decideVars, runVars, flowVars, pacingVars, keywordVars, snapshotVars, sharedVars, communityVars, handlerVars>>
notGuard == <<schedVars, styleVars, routerVars, decideVars, runVars, flowVars, pacingVars, keywordVars, snapshotVars, sharedVars, communityVars, handlerVars>>
notStyle == <<schedVars, guardVars, routerVars, decideVars, runVars, flowVars, pacingVars, keywordVars, snapshotVars, sharedVars, communityVars, handlerVars>>
notRouter == <<schedVars, guardVars, styleVars, decideVars, runVars, flowVars, pacingVars, keywordVars, snapshotVars, sharedVars, communityVars, handlerVars>>
notDecide == <<schedVars, guardVars, styleVars, routerVars, runVars, flowVars, pacingVars, keywordVars, snapshotVars, sharedVars, communityVars, handlerVars>>
notRun == <<schedVars, guardVars, styleVars, routerVars, decideVars, flowVars, pacingVars, keywordVars, snapshotVars, sharedVars, communityVars, handlerVars>>
notFlow == <<sessionVars, guardVars, styleVars, routerVars, decideVars, runVars, pacingVars, keywordVars, snapshotVars, sharedVars, communityVars, handlerVars>>
notPacing == <<schedVars, guardVars, styleVars, routerVars, decideVars, runVars, flowVars, keywordVars, snapshotVars, sharedVars, communityVars, handlerVars>>
notKeywords == <<schedVars, guardVars, styleVars, routerVars, decideVars, runVars, flowVars, pacingVars, snapshotVars, sharedVars, communityVars, handlerVars>>
notSnapshot == <<schedVars, guardVars, styleVars, routerVars, decideVars, runVars, flowVars, pacingVars, keywordVars, sharedVars, communityVars, handlerVars>>
notShared == <<sessionVars, guardVars, styleVars, routerVars, decideVars, runVars, flowVars, pacingVars, keywordVars, snapshotVars, communityVars, handlerVars>>
notCommunity == <<sessionVars, guardVars, styleVars, routerVars, decideVars, runVars, flowVars, pacingVars, keywordVars, snapshotVars, sharedVars, handlerVars>>
notHandler == <<schedVars, guardVars, styleVars, routerVars, decideVars, runVars, flowVars, pacingVars, keywordVars, snapshotVars, sharedVars, communityVars>>

Max(a, b) == IF a >= b THEN a ELSE b
Min(a, b) == IF a <= b THEN a ELSE b

(***************************************************************************)
(* Bounds of the model.                                                    *)
(***************************************************************************)
MaxRph == 2          \* largest configured home_timeline_replies_per_hour
MaxHoursCfg == 2     \* largest configured home_timeline_max_hours
MaxBatch == 2        \* largest number of tweets a fetch returns
MaxSessions == 2     \* orchestrator processes run one after the other
MaxRetryLimit == 2   \* largest retry_limit a caller passes
MaxStyleKeywords == 2  \* largest number of style keywords of an account
MaxOrderLen == 2       \* longest configured service_preference_order, the default apart
MaxAccounts == 2       \* accounts of the configuration
MaxActions == 2         \* successful actions of one run of the flows
MaxAwaits == 1         \* awaits the processing of an account passes

\* durations an awaited call may take, and by how much a sleep may overshoot
Durations == {0, 1800}

(***************************************************************************)
(* Program constants.                                                      *)
(***************************************************************************)
HourSeconds == 3600
MinDelayFloor == 10
DefaultRepliesPerHour == 10
DefaultMaxHours == 3

\* A ScrapedTweet, with the fields the session reads.
NoCandidate == [tweet_id |-> "", user_handle |-> "", like_count |-> 0,
                retweet_count |-> 0, reply_count |-> 0, view_count |-> 0]

\* The tweets the content source can return.  tweet_id "" is a tweet without
\* identifier; "@Me" is the account's own handle as the page shows it.
Tweets == { [tweet_id |-> "t1", user_handle |-> "bob", like_count |-> 2,
             retweet_count |-> 0, reply_count |-> 0, view_count |-> 0],
            [tweet_id |-> "t2", user_handle |-> "amy", like_count |-> 0,
             retweet_count |-> 1, reply_count |-> 1, view_count |-> 800],
            [tweet_id |-> "t3", user_handle |-> "@Me", like_count |-> 3,
             retweet_count |-> 0, reply_count |-> 0, view_count |-> 10],
            [tweet_id |-> "",   user_handle |-> "bob", like_count |-> 1,
             retweet_count |-> 0, reply_count |-> 0, view_count |-> 0] }

account_id == "me"

\* str.strip().lstrip('@').lower() on the handles of the model
NormalizeHandle(h) ==
    CASE h = "@Me" -> "me"
      [] h = "Me"  -> "me"
      [] OTHER     -> h

\* _is_own_tweet: the handle is one of the account's handles
\* (self_handles, logged_in_handle, account_id), and not empty
_is_own_tweet(user_handle) ==
    LET handle == NormalizeHandle(user_handle)
        candidates == {NormalizeHandle(account_id)}
    IN  handle \in candidates /\ handle # ""

\* _score_home_timeline_tweet, in thousandths
\* (likes * 2.5 + retweets * 3.0 + replies * 1.2 + views * 0.001)
_score_home_timeline_tweet(tweet) ==
    tweet.like_count * 2500 + tweet.retweet_count * 3000
        + tweet.reply_count * 1200 + tweet.view_count * 1

\* sorted(tweets, key=score, reverse=True): stable, descending
RECURSIVE InsertDesc(_, _)
InsertDesc(sorted, t) ==
    IF sorted = <<>> THEN <<t>>
    ELSE IF _score_home_timeline_tweet(t) > _score_home_timeline_tweet(Head(sorted))
         THEN <<t>> \o sorted
         ELSE <<Head(sorted)>> \o InsertDesc(Tail(sorted), t)

RECURSIVE SortByScoreDesc(_)
SortByScoreDesc(tweets) ==
    IF tweets = <<>> THEN <<>>
    ELSE InsertDesc(SortByScoreDesc(SubSeq(tweets, 1, Len(tweets) - 1)),
                    tweets[Len(tweets)])

RECURSIVE SeqsUpTo(_, _)
SeqsUpTo(S, n) ==
    IF n = 0 THEN {<<>>}
    ELSE LET shorter == SeqsUpTo(S, n - 1)
         IN  shorter \cup {Append(s, x) : s \in {t \in shorter : Len(t) = n - 1}, x \in S}

\* what scraper.scrape_home_timeline can return: up to MaxBatch different
\* tweets, in any order
Batches == {s \in SeqsUpTo(Tweets, MaxBatch) :
               \A i, j \in 1..Len(s) : s[i] = s[j] => i = j}

\* mutant: the key leaves the account out
ActionKeyWithoutAccount(kind, account, tweet_id) == kind \o "_" \o tweet_id

\* f"home_reply_{account.account_id}_{candidate.tweet_id}"
ActionKey(kind, account, tweet_id) == kind \o "_" \o account \o "_" \o tweet_id

(***************************************************************************)
(* Dedup store collaborator (utils/file_handler.py, FileHandler).          *)
(***************************************************************************)
\* load_processed_action_keys(): the set of the keys saved so far
load_processed_action_keys(persisted) == persisted

\* save_processed_action_key(key, timestamp): append the key
save_processed_action_key(persisted, key) == persisted \cup {key}

(***************************************************************************)
(* Session parameters, lines 191-195 and 320-328 of main.py.               *)
(***************************************************************************)
\* max(1, action_config.home_timeline_replies_per_hour or 10)
EffectiveRepliesPerHour(cfg) == Max(1, IF cfg = 0 THEN DefaultRepliesPerHour ELSE cfg)

\* max(1, action_config.home_timeline_max_hours or 3)
EffectiveMaxHours(cfg) == Max(1, IF cfg = 0 THEN DefaultMaxHours ELSE cfg)

total_cap == replies_per_hour * max_hours

\* 3600.0 / float(replies_per_hour); exact in whole seconds for the
\* replies_per_hour of the model (1..6)
per_reply_target_seconds(rph) == HourSeconds \div rph

\* mutant: the spacing forgets the hourly target
spacing_min_configured_only(rph, mind) == mind

spacing_min_seconds(rph, mind) == Max(mind, per_reply_target_seconds(rph))

\* mutant: the configured maximum is used as it is
spacing_max_unraised(rph, mind, maxd) == maxd

\* lines 322-328; x * 0.15 and x * 0.05 are exact for the spacings of the model
spacing_max_seconds(rph, mind, maxd) ==
    LET smin == spacing_min_seconds(rph, mind)
        first == IF maxd < smin
                 THEN smin + Max(30, (smin * 15) \div 100)
                 ELSE maxd
    IN  IF first - smin < 1
        THEN smin + Max(5, (smin * 5) \div 100)
        ELSE first

\* random.uniform(spacing_min_seconds, spacing_max_seconds): the two ends
NextDelays == {spacing_min_seconds(replies_per_hour, min_delay),
               spacing_max_seconds(replies_per_hour, min_delay, max_delay)}

\* configured values of the action_config
RphConfigs == (1..MaxRph) \cup {-1}
MaxHoursConfigs == 1..MaxHoursCfg
MinDelayConfigs == {0, 3600}
MaxDelayConfigs == {5400}

(***************************************************************************)
(* Text helpers.  A Python str is a sequence of one-character strings.     *)
(***************************************************************************)
LowerCaseLetters == <<"a", "b", "c", "d", "e", "f", "g", "h", "i", "j", "k", "l", "m", "n", "o", "p", "q", "r", "s", "t", "u", "v", "w", "x", "y", "z">>
UpperCaseLetters == <<"A", "B", "C", "D", "E", "F", "G", "H", "I", "J", "K", "L", "M", "N", "O", "P", "Q", "R", "S", "T", "U", "V", "W", "X", "Y", "Z">>
Digits == <<"0", "1", "2", "3", "4", "5", "6", "7", "8", "9">>

Range(f) == {f[i] : i \in DOMAIN f}
SetMin(S) == CHOOSE x \in S : \A y \in S : x <= y
SetMax(S) == CHOOSE x \in S : \A y \in S : x >= y

\* the characters str.strip() removes, among those of the model
WhiteSpace == {" ", "\n"}

\* _TOKEN_PATTERN = [A-Za-z0-9']+
TokenChars == Range(LowerCaseLetters) \cup Range(UpperCaseLetters) \cup Range(Digits) \cup {"'"}

\* str.lower() on one character
LowerChar(c) ==
    IF c \in Range(UpperCaseLetters)
    THEN LowerCaseLetters[CHOOSE i \in 1..26 : UpperCaseLetters[i] = c]
    ELSE c

\* str.lower()
LowerStr(str) == [i \in 1..Len(str) |-> LowerChar(str[i])]

\* the first and the last position of str that hold no white space (0: none)
FirstInk(str) ==
    IF \A i \in 1..Len(str) : str[i] \in WhiteSpace THEN 0
    ELSE CHOOSE i \in 1..Len(str) :
            str[i] \notin WhiteSpace /\ \A j \in 1..(i - 1) : str[j] \in WhiteSpace
LastInk(str) ==
    IF \A i \in 1..Len(str) : str[i] \in WhiteSpace THEN 0
    ELSE CHOOSE i \in 1..Len(str) :
            str[i] \notin WhiteSpace /\ \A j \in (i + 1)..Len(str) : str[j] \in WhiteSpace

\* str.strip()
Strip(str) == IF FirstInk(str) = 0 THEN <<>> ELSE SubSeq(str, FirstInk(str), LastInk(str))

\* str.rstrip()
RStrip(str) == IF LastInk(str) = 0 THEN <<>> ELSE SubSeq(str, 1, LastInk(str))

\* str[:n]
Truncate(str, n) == SubSeq(str, 1, Min(n, Len(str)))

\* `term in text`
Contains(text, term) ==
    \E i \in 1..(Len(text) - Len(term) + 1) : SubSeq(text, i, i + Len(term) - 1) = term

\* code point order of the characters a lower-cased token is made of
CharOrder == <<"'">> \o Digits \o LowerCaseLetters
CharRank(c) == CHOOSE i \in 1..Len(CharOrder) : CharOrder[i] = c

\* Python's str comparison, a > b
RECURSIVE StrGreater(_, _)
StrGreater(a, b) ==
    IF a = <<>> THEN FALSE
    ELSE IF b = <<>> THEN TRUE
    ELSE IF Head(a) = Head(b) THEN StrGreater(Tail(a), Tail(b))
    ELSE CharRank(Head(a)) > CharRank(Head(b))

_STOPWORDS == {
    <<"a">>, <<"a", "n">>, <<"a", "n", "d">>, <<"a", "r", "e">>, <<"a", "s">>, <<"a", "t">>,
    <<"b", "e">>, <<"b", "u", "t">>, <<"b", "y">>, <<"f", "o", "r">>, <<"f", "r", "o", "m">>,
    <<"h", "a", "s">>, <<"h", "a", "v", "e">>, <<"h", "e">>, <<"h", "e", "r">>,
    <<"h", "e", "r", "s">>, <<"h", "i", "m">>, <<"h", "i", "s">>, <<"h", "o", "w">>, <<"i">>,
    <<"i", "f">>, <<"i", "n">>, <<"i", "s">>, <<"i", "t">>, <<"i", "t", "s">>,
    <<"i", "t", "'", "s">>, <<"j", "u", "s", "t">>, <<"m", "e">>, <<"m", "y">>, <<"o", "f">>,
    <<"o", "n">>, <<"o", "r">>, <<"o", "u", "r">>, <<"o", "u", "r", "s">>, <<"s", "h", "e">>,
    <<"s", "o">>, <<"t", "h", "a", "n">>, <<"t", "h", "a", "t">>, <<"t", "h", "e">>,
    <<"t", "h", "e", "i", "r">>, <<"t", "h", "e", "m">>, <<"t", "h", "e", "r", "e">>,
    <<"t", "h", "e", "s", "e">>, <<"t", "h", "e", "y">>, <<"t", "h", "i", "s">>,
    <<"t", "h", "o", "s", "e">>, <<"t", "o">>, <<"t", "o", "o">>, <<"u", "p">>, <<"w", "a", "s">>,
    <<"w", "e">>, <<"w", "e", "r", "e">>, <<"w", "h", "a", "t">>, <<"w", "h", "e", "n">>,
    <<"w", "h", "e", "r", "e">>, <<"w", "h", "i", "c", "h">>, <<"w", "h", "o">>,
    <<"w", "i", "l", "l">>, <<"w", "i", "t", "h">>, <<"y", "o", "u">>, <<"y", "o", "u", "r">>,
    <<"y", "o", "u", "'", "r", "e">>, <<"a", "m", "p">>, <<"r", "t">>, <<"h", "t", "t", "p">>,
    <<"h", "t", "t", "p", "s">>, <<"w", "w", "w">> }

\* _tokenize: the lower-cased matches of _TOKEN_PATTERN, in order
_tokenize(text) ==
    LET isTok(i) == text[i] \in TokenChars
        starts == {i \in 1..Len(text) : isTok(i) /\ (i = 1 \/ ~isTok(i - 1))}
        endOf(i) == SetMin({j \in i..Len(text) : j = Len(text) \/ ~isTok(j + 1)})
        nth(k) == CHOOSE i \in starts : Cardinality({x \in starts : x < i}) = k - 1
    IN  [k \in 1..Cardinality(starts) |-> LowerStr(SubSeq(text, nth(k), endOf(nth(k))))]

tokenize_for_overlap(text) ==
    {token \in Range(_tokenize(text)) : token \notin _STOPWORDS /\ Len(token) > 2}

\* the sort key of extract_keywords_from_texts, (counter[t], -len(t), t):
\* key(a) > key(b)
KeywordKeyGreater(counter, a, b) ==
    \/ counter[a] > counter[b]
    \/ counter[a] = counter[b] /\ (0 - Len(a)) > (0 - Len(b))
    \/ counter[a] = counter[b] /\ Len(a) = Len(b) /\ StrGreater(a, b)

\* sorted(filtered, key=..., reverse=True)
RECURSIVE SortKeywords(_, _)
SortKeywords(counter, tokens) ==
    IF tokens = {} THEN <<>>
    ELSE LET top == CHOOSE t \in tokens :
                        \A u \in tokens \ {t} : KeywordKeyGreater(counter, t, u)
         IN  <<top>> \o SortKeywords(counter, tokens \ {top})

\* extract_keywords_from_texts([text], max_keywords=max_keywords)
extract_keywords_from_texts(text, max_keywords) ==
    LET tokens == _tokenize(text)
        counted == {t \in Range(tokens) : Len(t) > 2 /\ t \notin _STOPWORDS}
        counter == [t \in counted |-> Cardinality({k \in 1..Len(tokens) : tokens[k] = t})]
    IN  Truncate(SortKeywords(counter, counted), max_keywords)

(***************************************************************************)
(* reply_generator.py                                                      *)
(***************************************************************************)
MAX_REPLY_CHARS == 270
KeywordsPerTweet == 6

DEFAULT_OFF_TOPIC_TERMS == <<
    <<"c", "l", "a", "u", "d", "e">>, <<"a", "n", "t", "h", "r", "o", "p", "i", "c">>,
    <<"o", "p", "e", "n", "a", "i">>, <<"c", "h", "a", "t", "g", "p", "t">>,
    <<"o", "p", "e", "n", "c", "v">>, <<"r", "e", "p", "o">>,
    <<"p", "u", "l", "l", " ", "r", "e", "q", "u", "e", "s", "t">>,
    <<"m", "e", "r", "g", "e", " ", "r", "e", "q", "u", "e", "s", "t">>,
    <<"c", "o", "m", "m", "i", "t">>, <<"s", "t", "a", "c", "k", " ", "t", "r", "a", "c", "e">>,
    <<"s", "t", "a", "c", "k", "t", "r", "a", "c", "e">>,
    <<"e", "x", "c", "e", "p", "t", "i", "o", "n">>, <<"b", "u", "g", "f", "i", "x">>,
    <<"s", "c", "r", "i", "p", "t">>, <<"t", "e", "r", "m", "i", "n", "a", "l">>,
    <<"c", "o", "m", "m", "a", "n", "d", " ", "l", "i", "n", "e">> >>

\* _prepare_tweet_context: the text and the keywords of the context
ContextText(raw_text) == Strip(raw_text)
ContextKeywords(raw_text) == extract_keywords_from_texts(ContextText(raw_text), KeywordsPerTweet)

\* the terms a reply may use: the focus keywords and the tokens of the tweet
AllowedTerms(tweet_text, allowed_terms) ==
    {LowerStr(term) : term \in Range(allowed_terms)} \cup tokenize_for_overlap(tweet_text)

\* mutant: the reply is searched without lower-casing it
_find_off_topic_terms_case_sensitive(reply_text, tweet_text, allowed_terms) ==
    LET allowed == AllowedTerms(tweet_text, allowed_terms)
    IN  SelectSeq(DEFAULT_OFF_TOPIC_TERMS,
                  LAMBDA term : Contains(reply_text, term) /\ term \notin allowed)

\* _find_off_topic_terms: the default terms found in the reply and not
\* allowed, in the order of the default list
_find_off_topic_terms(reply_text, tweet_text, allowed_terms) ==
    LET reply_lower == LowerStr(reply_text)
        allowed == AllowedTerms(tweet_text, allowed_terms)
    IN  SelectSeq(DEFAULT_OFF_TOPIC_TERMS,
                  LAMBDA term : Contains(reply_lower, term) /\ term \notin allowed)

(***************************************************************************)
(* generate_guarded_reply, lines 260-420 of reply_generator.py.            *)
(***************************************************************************)
\* A failure reason: one of the fixed messages, the model's relevance_reason
\* (text), or the off-topic message with the flagged terms.
Message(m) == [msg |-> m, text |-> <<>>, terms |-> <<>>]
None == Message("None")
NoStructuredResponse == Message("No structured response produced.")
NoReplyText == Message("No reply text returned.")
ReplyTooLong == Message("Reply exceeded character limit.")
NotRelevant == Message("Model flagged reply as not relevant.")
UnknownGuardFailure == Message("Unknown guard failure.")
RelevanceReason(reason) == [msg |-> "relevance_reason", text |-> reason, terms |-> <<>>]
OffTopic(flagged) == [msg |-> "Reply referenced off-topic terms", text |-> <<>>, terms |-> flagged]

\* the tweets a reply is generated for
TweetTexts == {
    <<"A", "I", " ", "l", "a", "u", "n", "c", "h", " ", "t", "o", "d", "a", "y">>,
    <<"p", "u", "l", "l", " ", "r", "e", "q", "u", "e", "s", "t", " ", "m", "e", "r", "g", "e", "d">>,
    <<" ", "N", "e", "w", " ", "O", "p", "e", "n", "A", "I", " ", "r", "e", "p", "o", " ">>,
    <<>> }

LongRun(n) == [i \in 1..n |-> "x"]

\* the reply_text values a backend returns
ReplyTexts == {
    <<>>,
    <<" ", " ">>,
    <<"C", "o", "n", "g", "r", "a", "t", "s", " ", "o", "n", " ", "t", "h", "e", " ", "A", "I", " ", "l", "a", "u", "n", "c", "h", "!">>,
    <<" ", "N", "i", "c", "e", " ", "p", "u", "l", "l", " ", "r", "e", "q", "u", "e", "s", "t", " ">>,
    <<"C", "h", "e", "c", "k", " ", "t", "h", "e", " ", "O", "p", "e", "n", "A", "I", " ", "r", "e", "p", "o">>,
    <<"r", "e", "p", "o", "s", " ", "r", "o", "c", "k">>,
    LongRun(MAX_REPLY_CHARS - 2) \o <<" ", "o", "p", "e", "n", "a", "i">>,
    LongRun(MAX_REPLY_CHARS - 1) \o <<" ", " ", "y">> }

\* the relevance_reason values a backend returns
Reasons == { <<>>, <<" ", "o", "f", "f", " ", "t", "o", "p", "i", "c", " ">> }

\* what llm_service.generate_structured returns: (None, err) or (data, None)
NoDataResponses ==
    {[kind |-> "none", err |-> e, reply_text |-> <<>>, is_relevant |-> FALSE,
      relevance_reason |-> <<>>, referenced_topics |-> <<>>] :
        e \in {"", "LLM request failed"}}

DataResponses ==
    {[kind |-> "data", err |-> "", reply_text |-> t, is_relevant |-> r,
      relevance_reason |-> why, referenced_topics |-> IF r THEN <<"launch">> ELSE <<>>] :
        t \in ReplyTexts, r \in BOOLEAN, why \in Reasons}

NoResponse == [kind |-> "unset", err |-> "", reply_text |-> <<>>, is_relevant |-> FALSE,
               relevance_reason |-> <<>>, referenced_topics |-> <<>>]

NoResult == [status |-> "unset", text |-> <<>>, relevance_reason |-> None,
             referenced_topics |-> <<>>, attempts |-> 0, flagged_terms |-> <<>>]

RetryLimits == (-1)..MaxRetryLimit

\* mutant: one attempt too many
MoreAttemptsInclusive(done, limit) == done <= Max(1, limit)

\* lines 315-316: the loop goes on
MoreAttempts(done, limit) == done < Max(1, limit)

\* mutant: the cut reply keeps its trailing white space
TrimReplyNoRStrip(raw) == Truncate(Strip(raw), MAX_REPLY_CHARS)

\* lines 365-367: the reply text that is validated and returned
TrimReply(raw) ==
    LET stripped == Strip(raw)
    IN  IF stripped # <<>> THEN RStrip(Truncate(stripped, MAX_REPLY_CHARS)) ELSE stripped

\* lines 372-376
FlaggedTerms(data, raw_tweet_text) ==
    IF TrimReply(data.reply_text) # <<>>
    THEN _find_off_topic_terms(TrimReply(data.reply_text), ContextText(raw_tweet_text),
                               ContextKeywords(raw_tweet_text))
    ELSE <<>>

\* mutant: an empty reply is not a failure
AttemptErrorEmptyAllowed(data, raw_tweet_text) ==
    LET reply_text == TrimReply(data.reply_text)
        relevance_reason == Strip(data.relevance_reason)
        flagged_terms == FlaggedTerms(data, raw_tweet_text)
        too_long == reply_text # <<>> /\ Len(reply_text) > MAX_REPLY_CHARS
    IN  IF too_long THEN ReplyTooLong
        ELSE IF ~data.is_relevant
             THEN (IF relevance_reason # <<>> THEN RelevanceReason(relevance_reason)
                   ELSE NotRelevant)
        ELSE IF flagged_terms # <<>> THEN OffTopic(flagged_terms)
        ELSE None

\* mutant: the relevance check comes before the missing-text check
AttemptErrorRelevanceFirst(data, raw_tweet_text) ==
    LET reply_text == TrimReply(data.reply_text)
        relevance_reason == Strip(data.relevance_reason)
        flagged_terms == FlaggedTerms(data, raw_tweet_text)
        missing_reply == reply_text = <<>>
    IN  IF ~data.is_relevant
        THEN (IF relevance_reason # <<>> THEN RelevanceReason(relevance_reason)
              ELSE NotRelevant)
        ELSE IF missing_reply THEN NoReplyText
        ELSE IF flagged_terms # <<>> THEN OffTopic(flagged_terms)
        ELSE None

\* mutant: the off-topic check comes before the relevance check
AttemptErrorOffTopicFirst(data, raw_tweet_text) ==
    LET reply_text == TrimReply(data.reply_text)
        relevance_reason == Strip(data.relevance_reason)
        flagged_terms == FlaggedTerms(data, raw_tweet_text)
        missing_reply == reply_text = <<>>
    IN  IF missing_reply THEN NoReplyText
        ELSE IF flagged_terms # <<>> THEN OffTopic(flagged_terms)
        ELSE IF ~data.is_relevant
             THEN (IF relevance_reason # <<>> THEN RelevanceReason(relevance_reason)
                   ELSE NotRelevant)
        ELSE None

\* lines 378-388: the failure of the attempt, None when the reply is accepted
AttemptError(data, raw_tweet_text) ==
    LET reply_text == TrimReply(data.reply_text)
        relevance_reason == Strip(data.relevance_reason)
        flagged_terms == FlaggedTerms(data, raw_tweet_text)
        too_long == reply_text # <<>> /\ Len(reply_text) > MAX_REPLY_CHARS
        missing_reply == reply_text = <<>>
    IN  IF missing_reply THEN NoReplyText
        ELSE IF too_long THEN ReplyTooLong
        ELSE IF ~data.is_relevant
             THEN (IF relevance_reason # <<>> THEN RelevanceReason(relevance_reason)
                   ELSE NotRelevant)
        ELSE IF flagged_terms # <<>> THEN OffTopic(flagged_terms)
        ELSE None

\* mutant: the first failure is kept
RecordFirstError(previous, error) == IF previous = None THEN error ELSE previous

\* lines 360, 382-388: last_error = ...
RecordError(previous, error) == error

\* mutant: the accepted attempt is not counted
AcceptedAttemptsOffByOne(done) == done

\* line 400: "attempts": attempt + 1
AcceptedAttempts(done) == done + 1

\* mutant: the previous failure is never fed back
FeedbackNever == None

\* line 317
Feedback == IF attempt > 0 THEN last_error ELSE None

\* _merge_unique, lines 180-189: the first of the items that are equal once
\* lower-cased is kept
RECURSIVE MergeUnseen(_, _)
MergeUnseen(sequence, seen) ==
    IF sequence = <<>> THEN <<>>
    ELSE LET lowered == LowerStr(Head(sequence))
         IN  IF lowered \in seen THEN MergeUnseen(Tail(sequence), seen)
             ELSE <<Head(sequence)>> \o MergeUnseen(Tail(sequence), seen \cup {lowered})

_merge_unique(sequence) == MergeUnseen(sequence, {})

\* line 276: the banned terms of a call, from the terms the caller supplies
MergedBannedTerms(supplied) == _merge_unique(DEFAULT_OFF_TOPIC_TERMS \o supplied)

\* _build_instruction, lines 107-177: the parts of the instruction that are
\* not fixed text
_build_instruction(fb) ==
    [style_cues |-> IF style_summary # "" THEN style_summary
                    ELSE "Use a neutral, conversational tone.",
     correction |-> fb,
     focus_keywords |-> ContextKeywords(text_content),
     banned_terms |-> banned_terms,
     no_caption |-> ContextText(text_content) = <<>>,
     text |-> ContextText(text_content),
     persona_handle |-> persona_handle]

\* lines 347-357: the arguments of llm_service.generate_structured
StructuredRequest(fb) ==
    [task_instruction |-> _build_instruction(fb),
     schema |-> "reply_text, is_relevant, relevance_reason, referenced_topics",
     service_preference |-> llm_settings.service_preference,
     system_prompt |-> system_prompt,
     model_name |-> llm_settings.model_name_override,
     max_tokens |-> llm_settings.max_tokens,
     temperature |-> llm_settings.temperature,
     hard_character_limit |-> MAX_REPLY_CHARS,
     inline_media |-> prepared_inline_media]

NoRequest ==
    [task_instruction |-> [style_cues |-> "", correction |-> None, focus_keywords |-> <<>>,
                           banned_terms |-> <<>>, no_caption |-> FALSE, text |-> <<>>,
                           persona_handle |-> ""],
     schema |-> "", service_preference |-> "", system_prompt |-> "", model_name |-> "",
     max_tokens |-> 0, temperature |-> 0, hard_character_limit |-> 0,
     inline_media |-> <<>>]

\* an LLMSettings: temperature in tenths
ReplySettings == [service_preference |-> "gemini", model_name_override |-> "",
                  max_tokens |-> 120, temperature |-> 7]

\* the call of the home-timeline session, main.py lines 418-428, for a
\* candidate without media and without style profile
HomeTimelineArgs ==
    /\ style_summary = ""
    /\ persona_handle = ""
    /\ system_prompt = "base_system_prompt"
    /\ llm_settings = ReplySettings
    /\ banned_terms = MergedBannedTerms(<<>>)
    /\ prepared_inline_media = <<>>

GuardIdle ==
    /\ HomeTimelineArgs
    /\ request = NoRequest
    /\ gpc = "idle"
    /\ text_content = <<>>
    /\ retry_limit = 0
    /\ attempt = 0
    /\ last_error = None
    /\ feedback = None
    /\ calls = 0
    /\ last_response = NoResponse
    /\ result = NoResult

\* lines 274-315: a call of generate_guarded_reply starts
GuardInit ==
    /\ HomeTimelineArgs
    /\ request = NoRequest
    /\ gpc = "loop"
    /\ text_content \in TweetTexts
    /\ retry_limit \in RetryLimits
    /\ attempt = 0
    /\ last_error = None
    /\ feedback = None
    /\ calls = 0
    /\ last_response = NoResponse
    /\ result = NoResult

\* lines 316-363: the call returned no structured data
AttemptNoStructured ==
    /\ gpc = "loop"
    /\ MoreAttempts(attempt, retry_limit)
    /\ \E response \in NoDataResponses :
          /\ last_response' = response
          /\ last_error' = RecordError(last_error,
                                       IF response.err # "" THEN Message(response.err)
                                       ELSE NoStructuredResponse)
    /\ feedback' = Feedback
    /\ request' = StructuredRequest(Feedback)
    /\ calls' = calls + 1
    /\ attempt' = attempt + 1
    /\ UNCHANGED <<gpc, text_content, retry_limit, result, guardArgs>>

\* lines 316-357 and 365-388, 405-406: a guardrail rejects the reply
AttemptRejected ==
    /\ gpc = "loop"
    /\ MoreAttempts(attempt, retry_limit)
    /\ \E response \in DataResponses :
          /\ AttemptError(response, text_content) # None
          /\ last_response' = response
          /\ last_error' = RecordError(last_error, AttemptError(response, text_content))
    /\ feedback' = Feedback
    /\ request' = StructuredRequest(Feedback)
    /\ calls' = calls + 1
    /\ attempt' = attempt + 1
    /\ UNCHANGED <<gpc, text_content, retry_limit, result, guardArgs>>

\* lines 316-357 and 365-403: the reply passes every guardrail
AttemptAccepted ==
    /\ gpc = "loop"
    /\ MoreAttempts(attempt, retry_limit)
    /\ \E response \in DataResponses :
          /\ AttemptError(response, text_content) = None
          /\ last_response' = response
          /\ result' = [status |-> "accepted",
                        text |-> TrimReply(response.reply_text),
                        relevance_reason |-> RelevanceReason(Strip(response.relevance_reason)),
                        referenced_topics |-> response.referenced_topics,
                        attempts |-> AcceptedAttempts(attempt),
                        flagged_terms |-> <<>>]
    /\ feedback' = Feedback
    /\ request' = StructuredRequest(Feedback)
    /\ calls' = calls + 1
    /\ gpc' = "done"
    /\ UNCHANGED <<text_content, retry_limit, attempt, last_error, guardArgs>>

\* line 347: llm_service.generate_structured raised; the exception leaves
\* generate_guarded_reply
AttemptRaised ==
    /\ gpc = "loop"
    /\ MoreAttempts(attempt, retry_limit)
    /\ feedback' = Feedback
    /\ request' = StructuredRequest(Feedback)
    /\ calls' = calls + 1
    /\ gpc' = "raised"
    /\ UNCHANGED <<text_content, retry_limit, attempt, last_error, last_response, result,
                   guardArgs>>

\* lines 408-420: every attempt failed
Exhausted ==
    /\ gpc = "loop"
    /\ ~MoreAttempts(attempt, retry_limit)
    /\ result' = [status |-> "none",
                  text |-> <<>>,
                  relevance_reason |-> IF last_error = None THEN UnknownGuardFailure
                                       ELSE last_error,
                  referenced_topics |-> <<>>,
                  attempts |-> attempt,
                  flagged_terms |-> <<>>]
    /\ gpc' = "done"
    /\ UNCHANGED <<text_content, retry_limit, attempt, last_error, feedback, calls,
                   last_response, guardArgs, request>>

\* the terms a caller supplies as banned_terms
SuppliedBannedTerms == {
    <<>>,
    << <<"C", "o", "n", "g", "r", "a", "t", "s">> >>,
    << <<"O", "p", "e", "n", "A", "I">>, <<"l", "a", "u", "n", "c", "h">> >> }

\* the keyword arguments a caller passes: style, persona, system prompt,
\* settings, banned terms, media (as lines 278-281 prepared it)
GuardCalls == {
    [style_summary |-> "", persona_handle |-> "", system_prompt |-> "base_system_prompt",
     llm_settings |-> ReplySettings, supplied |-> b, media |-> <<>>] :
        b \in SuppliedBannedTerms }
  \cup {
    [style_summary |-> "dry, short sentences", persona_handle |-> "me",
     system_prompt |-> "style_system_prompt",
     llm_settings |-> [ReplySettings EXCEPT !.model_name_override = "pro"],
     supplied |-> b, media |-> <<"data_url">>] :
        b \in {<< <<"C", "o", "n", "g", "r", "a", "t", "s">> >>} }

\* line 270: retry_limit: int = 2
DefaultRetryLimit == 2

\* the tweets of these calls
CallTweetTexts == {
    <<"A", "I", " ", "l", "a", "u", "n", "c", "h", " ", "t", "o", "d", "a", "y">>,
    <<" ", "N", "e", "w", " ", "O", "p", "e", "n", "A", "I", " ", "r", "e", "p", "o", " ">> }

\* lines 274-315: a call of generate_guarded_reply by any caller
CallInit ==
    /\ \E call \in GuardCalls :
          /\ style_summary = call.style_summary
          /\ persona_handle = call.persona_handle
          /\ system_prompt = call.system_prompt
          /\ llm_settings = call.llm_settings
          /\ banned_terms = MergedBannedTerms(call.supplied)
          /\ prepared_inline_media = call.media
    /\ request = NoRequest
    /\ gpc = "loop"
    /\ text_content \in CallTweetTexts
    /\ retry_limit = DefaultRetryLimit
    /\ attempt = 0
    /\ last_error = None
    /\ feedback = None
    /\ calls = 0
    /\ last_response = NoResponse
    /\ result = NoResult

(***************************************************************************)
(* The session: _run_home_timeline_replies, one action per stretch of code *)
(* between two awaits.                                                     *)
(***************************************************************************)
\* no executor call of the session has returned yet
NotYet == -1

SchedInit ==
    /\ pc = "idle"
    /\ now = 0
    /\ replies_per_hour = 1
    /\ max_hours = 1
    /\ min_delay = MinDelayFloor
    /\ max_delay = MinDelayFloor
    /\ session_end = 0
    /\ current_hour_start = 0
    /\ replies_sent_total = 0
    /\ replies_this_hour = 0
    /\ next_reply_earliest = 0
    /\ attempt_completed_at = NotYet
    /\ scored_candidates = <<>>
    /\ candidate = NoCandidate
    /\ made_reply_this_batch = FALSE
    /\ store = {}
    /\ processed_action_keys = load_processed_action_keys({})
    /\ execLog = <<>>
    /\ sessions = 1

\* lines 191-201 and 330: the parameters and the pacing window of a new
\* session; building the style context (line 211) is awaited in between
StartSession ==
    /\ pc = "idle"
    /\ \E rphCfg \in RphConfigs, hoursCfg \in MaxHoursConfigs,
          minCfg \in MinDelayConfigs, maxCfg \in MaxDelayConfigs, d \in Durations :
          /\ replies_per_hour' = EffectiveRepliesPerHour(rphCfg)
          /\ max_hours' = EffectiveMaxHours(hoursCfg)
          /\ min_delay' = Max(MinDelayFloor, minCfg)
          /\ max_delay' = Max(Max(MinDelayFloor, minCfg), maxCfg)
          /\ session_end' = now + EffectiveMaxHours(hoursCfg) * HourSeconds
          /\ current_hour_start' = now
          /\ now' = now + d
          /\ next_reply_earliest' = now + d
    /\ replies_sent_total' = 0
    /\ replies_this_hour' = 0
    /\ execLog' = <<>>
    /\ attempt_completed_at' = NotYet
    /\ pc' = "loop"
    /\ UNCHANGED <<scored_candidates, candidate, made_reply_this_batch,
                   processed_action_keys, store, sessions>>

\* mutant: the hour limit of the session is not looked at
SessionTimeOverNever == FALSE

\* line 337
SessionTimeOver == now >= session_end

\* line 335: the while condition fails
SessionCapReached ==
    /\ pc = "loop"
    /\ ~(replies_sent_total < total_cap)
    /\ pc' = "ended"
    /\ UNCHANGED <<now, replies_per_hour, max_hours, min_delay, max_delay,
                   session_end, current_hour_start, replies_sent_total,
                   replies_this_hour, next_reply_earliest, scored_candidates,
                   candidate, made_reply_this_batch, processed_action_keys,
                   store, execLog, sessions, attempt_completed_at>>

\* lines 336-339
SessionTimeUp ==
    /\ pc = "loop"
    /\ replies_sent_total < total_cap
    /\ SessionTimeOver
    /\ pc' = "ended"
    /\ UNCHANGED <<now, replies_per_hour, max_hours, min_delay, max_delay,
                   session_end, current_hour_start, replies_sent_total,
                   replies_this_hour, next_reply_earliest, scored_candidates,
                   candidate, made_reply_this_batch, processed_action_keys,
                   store, execLog, sessions, attempt_completed_at>>

\* lines 341-344: the window start and the counter after the hourly reset
HourStartAfterReset == IF now - current_hour_start >= HourSeconds THEN now ELSE current_hour_start
HourCountAfterReset == IF now - current_hour_start >= HourSeconds THEN 0 ELSE replies_this_hour

\* mutant: the hourly cap never holds the task back
HourCapReachedNever(count) == FALSE

\* line 346
HourCapReached(count) == count >= replies_per_hour

\* lines 346-362: the hourly cap is reached; sleep until the next hour or
\* the end of the session (or lines 354-357 when there is nothing to sleep)
CooldownStart ==
    /\ pc = "loop"
    /\ replies_sent_total < total_cap
    /\ ~SessionTimeOver
    /\ HourCapReached(HourCountAfterReset)
    /\ LET next_hour_time == HourStartAfterReset + HourSeconds
           remaining_session == session_end - now
           sleep_seconds == Max(0, Min(next_hour_time - now, remaining_session))
       IN  IF remaining_session <= 0
           THEN /\ pc' = "ended"
                /\ current_hour_start' = HourStartAfterReset
                /\ replies_this_hour' = HourCountAfterReset
                /\ next_reply_earliest' = next_reply_earliest
           ELSE IF sleep_seconds <= 0
           THEN /\ pc' = "loop"
                /\ current_hour_start' = now
                /\ replies_this_hour' = 0
                /\ next_reply_earliest' = next_reply_earliest
           ELSE /\ pc' = "cooldown"
                /\ current_hour_start' = HourStartAfterReset
                /\ replies_this_hour' = HourCountAfterReset
                /\ next_reply_earliest' = next_reply_earliest
    /\ UNCHANGED <<now, replies_per_hour, max_hours, min_delay, max_delay,
                   session_end, replies_sent_total, scored_candidates,
                   candidate, made_reply_this_batch, processed_action_keys,
                   store, execLog, sessions, attempt_completed_at>>

\* lines 362-366: the cooldown sleep returns
CooldownWake ==
    /\ pc = "cooldown"
    /\ \E over \in Durations :
          LET sleep_seconds == Min(current_hour_start + HourSeconds - now, session_end - now)
          IN  now' = now + sleep_seconds + over
    /\ next_reply_earliest' = Max(next_reply_earliest, now')
    /\ current_hour_start' = now'
    /\ replies_this_hour' = 0
    /\ pc' = "loop"
    /\ UNCHANGED <<replies_per_hour, max_hours, min_delay, max_delay,
                   session_end, replies_sent_total, scored_candidates,
                   candidate, made_reply_this_batch, processed_action_keys,
                   store, execLog, sessions, attempt_completed_at>>

\* lines 368-384: fetch a batch and rank it
FetchBatch ==
    /\ pc = "loop"
    /\ replies_sent_total < total_cap
    /\ ~SessionTimeOver
    /\ ~HourCapReached(HourCountAfterReset)
    /\ \E tweets \in Batches \ {<<>>}, d \in Durations :
          /\ now' = now + d
          /\ scored_candidates' = SortByScoreDesc(tweets)
    /\ current_hour_start' = HourStartAfterReset
    /\ replies_this_hour' = HourCountAfterReset
    /\ made_reply_this_batch' = FALSE
    /\ pc' = "scan"
    /\ UNCHANGED <<replies_per_hour, max_hours, min_delay, max_delay,
                   session_end, replies_sent_total, next_reply_earliest,
                   candidate, processed_action_keys, store, execLog, sessions, attempt_completed_at>>

\* lines 374-376: the fetch returned nothing
FetchEmpty ==
    /\ pc = "loop"
    /\ replies_sent_total < total_cap
    /\ ~SessionTimeOver
    /\ ~HourCapReached(HourCountAfterReset)
    /\ \E d \in Durations : now' = now + d
    /\ current_hour_start' = HourStartAfterReset
    /\ replies_this_hour' = HourCountAfterReset
    /\ pc' = "ended"
    /\ UNCHANGED <<replies_per_hour, max_hours, min_delay, max_delay,
                   session_end, replies_sent_total, next_reply_earliest,
                   scored_candidates, candidate, made_reply_this_batch,
                   processed_action_keys, store, execLog, sessions, attempt_completed_at>>

\* line 396
action_key(tweet) == ActionKey("home_reply", account_id, tweet.tweet_id)

\* mutant: the dedup set is not consulted
NeverProcessed(key) == FALSE

\* line 397
AlreadyProcessed(key) == key \in processed_action_keys

\* mutant: only a tweet without identifier is passed over
SkippedOnlyWithoutId(tweet) == tweet.tweet_id = ""

\* lines 390-398: the candidate is passed over
Skipped(tweet) ==
    \/ tweet.tweet_id = ""
    \/ (tweet.user_handle # "" /\ _is_own_tweet(tweet.user_handle))
    \/ AlreadyProcessed(action_key(tweet))

\* line 387
CapsReached == replies_this_hour >= replies_per_hour \/ replies_sent_total >= total_cap

\* lines 386-398: the head of the ranked batch is skipped
ScanSkip ==
    /\ pc = "scan"
    /\ scored_candidates # <<>>
    /\ ~CapsReached
    /\ Skipped(Head(scored_candidates))
    /\ scored_candidates' = Tail(scored_candidates)
    /\ UNCHANGED <<pc, now, replies_per_hour, max_hours, min_delay, max_delay,
                   session_end, current_hour_start, replies_sent_total,
                   replies_this_hour, next_reply_earliest, candidate,
                   made_reply_this_batch, processed_action_keys, store,
                   execLog, sessions, attempt_completed_at>>

\* lines 386-416: the head of the ranked batch is eligible
ScanSelect ==
    /\ pc = "scan"
    /\ scored_candidates # <<>>
    /\ ~CapsReached
    /\ ~Skipped(Head(scored_candidates))
    /\ candidate' = Head(scored_candidates)
    /\ scored_candidates' = Tail(scored_candidates)
    /\ pc' = "generate"
    /\ UNCHANGED <<now, replies_per_hour, max_hours, min_delay, max_delay,
                   session_end, current_hour_start, replies_sent_total,
                   replies_this_hour, next_reply_earliest,
                   made_reply_this_batch, processed_action_keys, store,
                   execLog, sessions, attempt_completed_at>>

\* mutant: a batch without reply is followed by another fetch
AfterBatchAlwaysLoop(made_reply) == "loop"

\* lines 528-530: where the task goes after the walk of a batch
AfterBatch(made_reply) == IF made_reply THEN "loop" ELSE "ended"

\* lines 386-388 and 528-530: the walk of the batch is over
ScanEnd ==
    /\ pc = "scan"
    /\ (scored_candidates = <<>> \/ CapsReached)
    /\ pc' = AfterBatch(made_reply_this_batch)
    /\ UNCHANGED <<now, replies_per_hour, max_hours, min_delay, max_delay,
                   session_end, current_hour_start, replies_sent_total,
                   replies_this_hour, next_reply_earliest, scored_candidates,
                   candidate, made_reply_this_batch, processed_action_keys,
                   store, execLog, sessions, attempt_completed_at>>

\* lines 417-468: generate_guarded_reply raised, returned no text, or the text
\* is empty once cut to 270 characters: next candidate
GenerateNothing ==
    /\ pc = "generate"
    /\ \E d \in Durations : now' = now + d
    /\ pc' = "scan"
    /\ UNCHANGED <<replies_per_hour, max_hours, min_delay, max_delay,
                   session_end, current_hour_start, replies_sent_total,
                   replies_this_hour, next_reply_earliest, scored_candidates,
                   candidate, made_reply_this_batch, processed_action_keys,
                   store, execLog, sessions, attempt_completed_at>>

\* lines 417-454: generate_guarded_reply returned a reply
GenerateReply ==
    /\ pc = "generate"
    /\ \E d \in Durations : now' = now + d
    /\ pc' = "pace"
    /\ UNCHANGED <<replies_per_hour, max_hours, min_delay, max_delay,
                   session_end, current_hour_start, replies_sent_total,
                   replies_this_hour, next_reply_earliest, scored_candidates,
                   candidate, made_reply_this_batch, processed_action_keys,
                   store, execLog, sessions, attempt_completed_at>>

\* the invocations of the log that a rolling hour ending at time t still covers
Recent(log, t) == SelectSeq(log, LAMBDA e : e.at > t - HourSeconds)

\* mutant: the task never waits for the pacing clock
PacingWaitNone(t) == 0

\* lines 470-477: how long the task sleeps before the executor call
PacingWait(t) == IF t < next_reply_earliest THEN next_reply_earliest - t ELSE 0

\* lines 470-484: wait for the pacing clock, then call the executor
PaceAndInvoke ==
    /\ pc = "pace"
    /\ \E over \in Durations :
          now' = now + PacingWait(now) + (IF PacingWait(now) > 0 THEN over ELSE 0)
    /\ execLog' = Append(Recent(execLog, now'),
                          [at |-> now',
                           key |-> action_key(candidate),
                           persisted |-> action_key(candidate) \in store])
    /\ pc' = "exec"
    /\ UNCHANGED <<replies_per_hour, max_hours, min_delay, max_delay,
                   session_end, current_hour_start, replies_sent_total,
                   replies_this_hour, next_reply_earliest, scored_candidates,
                   candidate, made_reply_this_batch, processed_action_keys,
                   store, sessions, attempt_completed_at>>

\* mutant: a success is counted twice
CountReplyTwice(n) == n + 2

\* lines 493-494
CountReply(n) == n + 1

\* mutant: the key is remembered whatever the executor returned
RememberKeyAlways(keys, key, success) == keys \cup {key}

\* lines 491 and 516: self.processed_action_keys.add(action_key), on success
RememberKey(keys, key, success) == IF success THEN keys \cup {key} ELSE keys

\* mutant: the walk of the batch goes on after a success
AfterReplyKeepsScanning(success) == "scan"

\* lines 491, 517-518 and 528: a success leaves the walk for the top of the
\* loop, a failure goes on with the next candidate
AfterReply(success) == IF success THEN "loop" ELSE "scan"

\* lines 484-518: publisher.reply_to_tweet returned True
ReplySucceeded ==
    /\ pc = "exec"
    /\ \E d \in Durations, next_delay \in NextDelays :
          /\ now' = now + d
          /\ attempt_completed_at' = now + d
          /\ next_reply_earliest' = now' + next_delay
    /\ replies_sent_total' = CountReply(replies_sent_total)
    /\ replies_this_hour' = CountReply(replies_this_hour)
    /\ store' = save_processed_action_key(store, action_key(candidate))
    /\ processed_action_keys' = RememberKey(processed_action_keys, action_key(candidate), TRUE)
    /\ made_reply_this_batch' = TRUE
    /\ pc' = AfterReply(TRUE)
    /\ UNCHANGED <<replies_per_hour, max_hours, min_delay, max_delay,
                   session_end, current_hour_start, scored_candidates,
                   candidate, execLog, sessions>>

\* lines 484-490 and 519-526: publisher.reply_to_tweet returned False
ReplyFailed ==
    /\ pc = "exec"
    /\ \E d \in Durations, next_delay \in NextDelays :
          /\ now' = now + d
          /\ attempt_completed_at' = now + d
          /\ next_reply_earliest' = now' + next_delay
    /\ pc' = AfterReply(FALSE)
    /\ processed_action_keys' = RememberKey(processed_action_keys, action_key(candidate), FALSE)
    /\ UNCHANGED <<replies_per_hour, max_hours, min_delay, max_delay,
                   session_end, current_hour_start, replies_sent_total,
                   replies_this_hour, scored_candidates, candidate,
                   made_reply_this_batch, store, execLog, sessions>>

\* line 484: publisher.reply_to_tweet raised; nothing in the session catches
\* it, so the session is left
ReplyRaised ==
    /\ pc = "exec"
    /\ \E d \in Durations : now' = now + d
    /\ pc' = "ended"
    /\ UNCHANGED <<replies_per_hour, max_hours, min_delay, max_delay,
                   session_end, current_hour_start, replies_sent_total,
                   replies_this_hour, next_reply_earliest, scored_candidates,
                   candidate, made_reply_this_batch, processed_action_keys,
                   store, execLog, sessions, attempt_completed_at>>

\* line 41: a later orchestrator process starts and loads the dedup store;
\* nothing else of the previous process survives
Restart ==
    /\ pc = "ended"
    /\ sessions < MaxSessions
    /\ sessions' = sessions + 1
    /\ processed_action_keys' = load_processed_action_keys(store)
    /\ now' = 0
    /\ pc' = "idle"
    /\ replies_per_hour' = 1
    /\ max_hours' = 1
    /\ min_delay' = MinDelayFloor
    /\ max_delay' = MinDelayFloor
    /\ session_end' = 0
    /\ current_hour_start' = 0
    /\ replies_sent_total' = 0
    /\ replies_this_hour' = 0
    /\ next_reply_earliest' = 0
    /\ scored_candidates' = <<>>
    /\ candidate' = NoCandidate
    /\ made_reply_this_batch' = FALSE
    /\ execLog' = <<>>
    /\ attempt_completed_at' = NotYet
    /\ UNCHANGED store

(***************************************************************************)
(* should_apply_style_profile (reply_generator.py) and is_probably_humorous *)
(* (text_utils.py): whether the account style influences a reply.          *)
(***************************************************************************)
\* text_utils.py line 85: the markers that can be tokens ("#" stripped); the
\* emoji markers hold no token character and can never equal a token
_HUMOR_MARKERS == {
    <<"l", "o", "l">>,
    <<"l", "m", "a", "o">>,
    <<"h", "a", "h", "a">>,
    <<"h", "e", "h", "e">>,
    <<"m", "e", "m", "e">>,
    <<"U+1F602">>, <<"U+1F923">>, <<"U+1F639">> }

\* text_utils.py lines 192-197
is_probably_humorous(text) ==
    LET tokens == tokenize_for_overlap(text)
    IN  IF tokens = {} THEN FALSE ELSE tokens \cap _HUMOR_MARKERS # {}

\* reply_generator.py lines 54 and 59: context["text"], context["humor_flag"]
StyleContextText(raw_text) == Strip(raw_text)
HumorFlag(raw_text) == is_probably_humorous(StyleContextText(raw_text))

\* mutant: humorous tweets are not set apart
should_apply_style_profile_ignoring_humor(raw_text, keywords) ==
    IF keywords = <<>> THEN FALSE
    ELSE tokenize_for_overlap(StyleContextText(raw_text))
            \cap {LowerStr(keywords[i]) : i \in DOMAIN keywords} # {}

\* reply_generator.py lines 80-89
should_apply_style_profile(raw_text, keywords) ==
    IF keywords = <<>> THEN FALSE
    ELSE IF HumorFlag(raw_text) THEN FALSE
    ELSE LET tweet_tokens == tokenize_for_overlap(StyleContextText(raw_text))
             overlap == tweet_tokens \cap {LowerStr(keywords[i]) : i \in DOMAIN keywords}
         IN  overlap # {}

\* the tweets and the style keywords the function is applied to
StyleTweetTexts == {
    <<"L", "O", "L", " ", "t", "h", "i", "s", " ", "m", "e", "m", "e", " ", "a", "b", "o", "u", "t", " ", "d", "e", "p", "l", "o", "y", " ", "s", "c", "r", "i", "p", "t", "s", " ", "b", "r", "o", "k", "e", " ", "m", "e">>,
    <<"P", "l", "a", "t", "f", "o", "r", "m", " ", "e", "n", "g", "i", "n", "e", "e", "r", "i", "n", "g", " ", "t", "e", "a", "m", "s", " ", "l", "o", "v", "e", " ", "d", "e", "t", "a", "i", "l", "e", "d", " ", "r", "u", "n", "b", "o", "o", "k", "s">>,
    <<" ", "D", "e", "p", "l", "o", "y", " ", "t", "h", "e", " ", "A", "P", "I", " ">>,
    <<"h", "a", "h", "a">>,
    <<"i", "t", "'", "s", " ", "o", "n">>,
    <<>> }

StyleWords == {
    <<"d", "e", "p", "l", "o", "y">>,
    <<"S", "c", "r", "i", "p", "t", "s">>,
    <<"g", "a", "r", "d", "e", "n", "i", "n", "g">>,
    <<"m", "e", "m", "e">>,
    <<"t", "h", "e">> }

RECURSIVE StyleSeqsUpTo(_, _)
StyleSeqsUpTo(S, n) ==
    IF n = 0 THEN {<<>>}
    ELSE LET shorter == StyleSeqsUpTo(S, n - 1)
         IN  shorter \cup {Append(s, w) : s \in shorter, w \in S}

StyleKeywordLists == StyleSeqsUpTo(StyleWords, MaxStyleKeywords)

StyleIdle ==
    /\ stpc = "idle"
    /\ style_text = <<>>
    /\ style_keywords = <<>>
    /\ use_style_profile = "unset"

\* main.py lines 400-412: a candidate and the account's style keywords
StyleInit ==
    /\ stpc = "call"
    /\ style_text \in StyleTweetTexts
    /\ style_keywords \in StyleKeywordLists
    /\ use_style_profile = "unset"

\* main.py line 413: use_style_profile = should_apply_style_profile(...)
ApplyStyleProfile ==
    /\ stpc = "call"
    /\ use_style_profile' = should_apply_style_profile(style_text, style_keywords)
    /\ stpc' = "returned"
    /\ UNCHANGED <<style_text, style_keywords>>

(***************************************************************************)
(* TextGenerator.generate_text (src/src/core/llm_service/generator.py):    *)
(* the backends are tried in order until one returns.                      *)
(***************************************************************************)
\* the backends generate_text knows (lines 93, 130, 154, 171), and one name
\* it does not know
KnownServices == {"gemini", "azure", "openai"}
ServiceNames == KnownServices \cup {"claude"}

\* line 58: the default of service_preference_order
DefaultServicePreferenceOrder == <<"azure", "openai", "gemini">>

RECURSIVE OrdersUpTo(_)
OrdersUpTo(n) ==
    IF n = 0 THEN {<<>>}
    ELSE LET shorter == OrdersUpTo(n - 1)
         IN  shorter \cup {Append(o, name) : o \in shorter, name \in ServiceNames}

\* the configured service_preference_order values, the default among them
ConfiguredOrders == OrdersUpTo(MaxOrderLen) \cup {DefaultServicePreferenceOrder}

\* the service_preference a caller passes; "" stands for None
ServicePreferences == ServiceNames \cup {""}

\* what a backend invocation raises
BackendExceptions == {"APIConnectionError", "AttributeError"}

\* position of the first occurrence (list.index)
IndexOf(list, name) == CHOOSE i \in DOMAIN list :
                          list[i] = name /\ \A j \in 1..(i - 1) : list[j] # name

\* list.pop(i)
RemoveAt(list, i) == SubSeq(list, 1, i - 1) \o SubSeq(list, i + 1, Len(list))

\* mutant: the preferred service is tried last
ServicesToTryPreferredLast(order, preference) ==
    IF preference # "" /\ preference \in Range(order)
    THEN Append(RemoveAt(order, IndexOf(order, preference)), preference)
    ELSE IF preference # "" THEN Append(order, preference)
    ELSE order

\* lines 72-76: services_to_try
ServicesToTry(order, preference) ==
    IF preference # "" /\ preference \in Range(order)
    THEN <<preference>> \o RemoveAt(order, IndexOf(order, preference))
    ELSE IF preference # "" THEN <<preference>> \o order
    ELSE order

\* mutant: the last service of the order is left out
MoreServicesButLast(index, list) == index < Len(list)

\* line 80: the for loop has a service left
MoreServices(index, list) == index <= Len(list)

\* lines 93, 130, 154: the service's client was given to the constructor
HasClient(service_name) == service_name \in KnownServices /\ service_name \in clients

\* mutant: no exception is caught
CaughtNever(exception) == FALSE

\* line 183: except Exception
Caught(exception) == exception \in BackendExceptions

RouterIdle ==
    /\ rpc = "idle"
    /\ service_preference_order = <<>>
    /\ clients = {}
    /\ deployment_name = FALSE
    /\ service_preference = ""
    /\ services_to_try = <<>>
    /\ service_index = 1
    /\ tried = <<>>
    /\ generated = "unset"

\* lines 54-60: TextGenerator.__init__
RouterInit ==
    /\ rpc = "constructed"
    /\ service_preference_order \in ConfiguredOrders
    /\ clients \in SUBSET KnownServices
    /\ deployment_name \in BOOLEAN
    /\ service_preference = ""
    /\ services_to_try = <<>>
    /\ service_index = 1
    /\ tried = <<>>
    /\ generated = "unset"

\* lines 63-78: generate_text is called
GenerateTextCall ==
    /\ rpc = "constructed"
    /\ \E preference \in ServicePreferences :
          /\ service_preference' = preference
          /\ services_to_try' = ServicesToTry(service_preference_order, preference)
    /\ rpc' = "loop"
    /\ UNCHANGED <<service_preference_order, clients, deployment_name, service_index,
                   tried, generated>>

\* the service of this iteration
service_name == services_to_try[service_index]

\* lines 93, 130-136, 154: the branch of the service invokes its client
Invocable ==
    /\ rpc = "loop"
    /\ MoreServices(service_index, services_to_try)
    /\ HasClient(service_name)
    /\ service_name = "azure" => deployment_name

\* one more entry of the history of the call
Tried(outcome) == Append(tried, [name |-> service_name, outcome |-> outcome])

\* lines 120-127, 147-153, 163-170: the client returns and generate_text
\* returns its text
InvokeReturns ==
    /\ Invocable
    /\ tried' = Tried("returned")
    /\ generated' = service_name
    /\ rpc' = "returned"
    /\ UNCHANGED <<service_preference_order, clients, deployment_name, service_preference,
                   services_to_try, service_index>>

\* lines 120, 147, 163 and 183-184: the invocation raises
InvokeRaises ==
    /\ Invocable
    /\ \E exception \in BackendExceptions :
          /\ tried' = Tried("raised")
          /\ IF Caught(exception)
             THEN service_index' = service_index + 1 /\ rpc' = rpc
             ELSE service_index' = service_index /\ rpc' = "raised"
    /\ UNCHANGED <<service_preference_order, clients, deployment_name, service_preference,
                   services_to_try, generated>>

\* lines 130-136: azure has a client but no deployment name
SkipNoDeployment ==
    /\ rpc = "loop"
    /\ MoreServices(service_index, services_to_try)
    /\ service_name = "azure" /\ HasClient(service_name) /\ ~deployment_name
    /\ tried' = Tried("no deployment name")
    /\ service_index' = service_index + 1
    /\ UNCHANGED <<rpc, service_preference_order, clients, deployment_name,
                   service_preference, services_to_try, generated>>

\* lines 180-181: a known service whose client is not there
SkipNoClient ==
    /\ rpc = "loop"
    /\ MoreServices(service_index, services_to_try)
    /\ service_name \in KnownServices /\ ~HasClient(service_name)
    /\ tried' = Tried("no client")
    /\ service_index' = service_index + 1
    /\ UNCHANGED <<rpc, service_preference_order, clients, deployment_name,
                   service_preference, services_to_try, generated>>

\* lines 177-179: a service name generate_text does not know
SkipUnknown ==
    /\ rpc = "loop"
    /\ MoreServices(service_index, services_to_try)
    /\ service_name \notin KnownServices
    /\ tried' = Tried("unknown")
    /\ service_index' = service_index + 1
    /\ UNCHANGED <<rpc, service_preference_order, clients, deployment_name,
                   service_preference, services_to_try, generated>>

\* lines 186-187: no service is left
ReturnNone ==
    /\ rpc = "loop"
    /\ ~MoreServices(service_index, services_to_try)
    /\ generated' = "None"
    /\ rpc' = "returned"
    /\ UNCHANGED <<service_preference_order, clients, deployment_name, service_preference,
                   services_to_try, service_index, tried>>

(***************************************************************************)
(* TwitterOrchestrator._decide_competitor_action (src/src/main.py).        *)
(* Relevance is in hundredths.                                             *)
(***************************************************************************)
\* lines 541-543: the default thresholds
DefaultQuoteMin == 75
DefaultRetweetMin == 50
DefaultRepostMin == 35

\* a threshold that is None in the account's action_config, or whose key is
\* missing from the global thresholds, or that the tweet does not carry
NotConfigured == -1

NoThresholds == [quote |-> NotConfigured, retweet |-> NotConfigured, repost |-> NotConfigured]

\* the decision_*_min of the account: none, the quote threshold alone, or all
AccountThresholdConfigs == {
    NoThresholds,
    [quote |-> 90, retweet |-> NotConfigured, repost |-> NotConfigured],
    [quote |-> 90, retweet |-> 60, repost |-> 20] }

\* the thresholds of the global engagement_decision settings: none, all but
\* the repost threshold, or all
GlobalThresholdConfigs == {
    NoThresholds,
    [quote |-> 80, retweet |-> 55, repost |-> NotConfigured],
    [quote |-> 80, retweet |-> 55, repost |-> 30] }

\* thresholds a candidate tweet may carry; _decide_competitor_action hands the
\* tweet to the analyzer and reads nothing else of it
TweetThresholdConfigs == {
    NoThresholds,
    [quote |-> 100, retweet |-> 75, repost |-> 50] }

\* mutant: the global configuration before the account's
ResolveThresholdGlobalFirst(of_account, of_global, default) ==
    IF of_global # NotConfigured THEN of_global
    ELSE IF of_account # NotConfigured THEN of_account
    ELSE default

\* lines 541-543: the account's value when it is not None, else the global
\* value when its key is there, else the default
ResolveThreshold(of_account, of_global, default) ==
    IF of_account # NotConfigured THEN of_account
    ELSE IF of_global # NotConfigured THEN of_global
    ELSE default

\* lines 541-543: quote_min, retweet_min, repost_min
ResolvedThresholds(of_account, of_global) ==
    [quote   |-> ResolveThreshold(of_account.quote, of_global.quote, DefaultQuoteMin),
     retweet |-> ResolveThreshold(of_account.retweet, of_global.retweet, DefaultRetweetMin),
     repost  |-> ResolveThreshold(of_account.repost, of_global.repost, DefaultRepostMin)]

\* what score_relevance and the structured analysis give as relevance
RelevanceLevels == {0, 34, 35, 50, 75, 100}

Sentiments == {"positive", "neutral", "negative"}

\* line 553: the action kinds a recommendation is honoured for
KnownActions == {"quote_tweet", "retweet", "repost", "like"}

\* the recommended_action values of a structured analysis
RecommendedActions == KnownActions \cup {"RETWEET", "reply"}

\* line 550: str(...).lower()
LowerAction(rec) == IF rec = "RETWEET" THEN "retweet" ELSE rec

\* acc_ac.competitor_post_interaction_type
InteractionTypes == {"repost", "like"}

NoStructured == [kind |-> "none", relevance |-> 0, sentiment |-> "neutral",
                 recommended_action |-> ""]

\* what analyzer.analyze_tweet_structured returns for a candidate of the
\* given sentiment: None, a mapping without recommended_action, or a mapping
\* with one
StructuredResults(of_sentiment) ==
    {NoStructured}
    \cup {[kind |-> k, relevance |-> r, sentiment |-> of_sentiment, recommended_action |-> a] :
            k \in {"mapping"}, r \in RelevanceLevels, a \in RecommendedActions}
    \cup {[kind |-> "no recommendation", relevance |-> r, sentiment |-> of_sentiment,
           recommended_action |-> ""] : r \in RelevanceLevels}

\* line 547: the structured result carries a recommendation
HasRecommendation(s) == s.kind = "mapping"

\* mutant: no relevance is below the floor
BelowFloorNever(relevance, floor) == FALSE

\* line 552: rel < repost_min
BelowFloor(relevance, floor) == relevance < floor

\* lines 564-565: the sentiments that allow quote_tweet and retweet
Favorable(s) == s \in {"positive", "neutral"}

\* mutant: the retweet check before the quote check
ThresholdActionRetweetFirst(relevance, s, thresholds) ==
    IF relevance >= thresholds.retweet /\ Favorable(s) THEN "retweet"
    ELSE IF relevance >= thresholds.quote /\ Favorable(s) THEN "quote_tweet"
    ELSE IF relevance >= thresholds.repost THEN "repost"
    ELSE "like"

\* lines 564-570: the threshold mapping of the fallback
ThresholdAction(relevance, s, thresholds) ==
    IF relevance >= thresholds.quote /\ Favorable(s) THEN "quote_tweet"
    ELSE IF relevance >= thresholds.retweet /\ Favorable(s) THEN "retweet"
    ELSE IF relevance >= thresholds.repost THEN "repost"
    ELSE "like"

DecideIdle ==
    /\ dpc = "idle"
    /\ decision_enabled = FALSE
    /\ use_sentiment = FALSE
    /\ interaction_type = "repost"
    /\ account_thresholds = NoThresholds
    /\ global_thresholds = NoThresholds
    /\ tweet_thresholds = NoThresholds
    /\ decision_thresholds = [quote |-> DefaultQuoteMin, retweet |-> DefaultRetweetMin,
                              repost |-> DefaultRepostMin]
    /\ candidate_sentiment = "neutral"
    /\ structured = NoStructured
    /\ fallback_relevance = 0
    /\ fallback_sentiment = "neutral"
    /\ classifier = "unused"
    /\ decided = "unset"

\* lines 534-543: the call starts, the configuration is read
DecideInit ==
    /\ dpc = "configured"
    /\ decision_enabled \in BOOLEAN
    /\ use_sentiment \in BOOLEAN
    /\ interaction_type \in InteractionTypes
    /\ account_thresholds \in AccountThresholdConfigs
    /\ global_thresholds \in GlobalThresholdConfigs
    /\ tweet_thresholds \in TweetThresholdConfigs
    /\ decision_thresholds = ResolvedThresholds(account_thresholds, global_thresholds)
    /\ candidate_sentiment \in Sentiments
    /\ structured = NoStructured
    /\ fallback_relevance = 0
    /\ fallback_sentiment = "neutral"
    /\ classifier = "unused"
    /\ decided = "unset"

\* lines 544-545: decision logic is off
DecisionDisabled ==
    /\ dpc = "configured"
    /\ ~decision_enabled
    /\ decided' = interaction_type
    /\ dpc' = "returned"
    /\ UNCHANGED <<thresholdSources, decision_enabled, use_sentiment, interaction_type,
                   decision_thresholds,
                   candidate_sentiment, structured, fallback_relevance, fallback_sentiment,
                   classifier>>

\* lines 547-553: the structured analysis recommends below the floor
StructuredFloor ==
    /\ dpc = "configured"
    /\ decision_enabled
    /\ \E s \in StructuredResults(candidate_sentiment) :
          /\ HasRecommendation(s)
          /\ BelowFloor(s.relevance, decision_thresholds.repost)
          /\ structured' = s
    /\ decided' = "like"
    /\ dpc' = "returned"
    /\ UNCHANGED <<thresholdSources, decision_enabled, use_sentiment, interaction_type,
                   decision_thresholds,
                   candidate_sentiment, fallback_relevance, fallback_sentiment,
                   classifier>>

\* lines 547-555: the recommendation of the structured analysis is returned
StructuredRecommendation ==
    /\ dpc = "configured"
    /\ decision_enabled
    /\ \E s \in StructuredResults(candidate_sentiment) :
          /\ HasRecommendation(s)
          /\ ~BelowFloor(s.relevance, decision_thresholds.repost)
          /\ LowerAction(s.recommended_action) \in KnownActions
          /\ structured' = s
          /\ decided' = LowerAction(s.recommended_action)
    /\ dpc' = "returned"
    /\ UNCHANGED <<thresholdSources, decision_enabled, use_sentiment, interaction_type,
                   decision_thresholds,
                   candidate_sentiment, fallback_relevance, fallback_sentiment,
                   classifier>>

\* lines 547-555: no structured result, none with a recommendation, or an
\* unknown recommendation
StructuredUnusable ==
    /\ dpc = "configured"
    /\ decision_enabled
    /\ \E s \in StructuredResults(candidate_sentiment) :
          /\ \/ ~HasRecommendation(s)
             \/ /\ ~BelowFloor(s.relevance, decision_thresholds.repost)
                /\ LowerAction(s.recommended_action) \notin KnownActions
          /\ structured' = s
    /\ dpc' = "fallback"
    /\ UNCHANGED <<thresholdSources, decision_enabled, use_sentiment, interaction_type,
                   decision_thresholds,
                   candidate_sentiment, fallback_relevance, fallback_sentiment,
                   classifier, decided>>

\* lines 556-571: relevance score, sentiment when used, threshold mapping
FallbackDecision ==
    /\ dpc = "fallback"
    /\ \E relevance \in RelevanceLevels, classified \in {"value", "raised"} :
          LET s == IF use_sentiment /\ classified = "value" THEN candidate_sentiment
                   ELSE "neutral"
          IN  /\ fallback_relevance' = relevance
              /\ fallback_sentiment' = s
              /\ classifier' = IF use_sentiment THEN classified ELSE "unused"
              /\ decided' = ThresholdAction(relevance, s, decision_thresholds)
    /\ dpc' = "returned"
    /\ UNCHANGED <<thresholdSources, decision_enabled, use_sentiment, interaction_type,
                   decision_thresholds,
                   candidate_sentiment, structured>>

(***************************************************************************)
(* TwitterOrchestrator.run and _process_account (src/src/main.py): one     *)
(* task per account, run concurrently by asyncio.gather.  A task gives way *)
(* to the others at each of its awaits.                                    *)
(***************************************************************************)
Accounts == 1..MaxAccounts

\* what accounts_data holds for an account
AccountConfigs == {"malformed", "inactive", "active"}

\* mutant: the first exception of a task leaves gather, and the shutdown of
\* the event loop cancels the tasks still running
ReturnExceptionsOff == FALSE

\* line 1211: asyncio.gather(*tasks, return_exceptions=True)
ReturnExceptions == TRUE

\* a task that is over, one way or another
TaskOver(a) == task_pc[a] \in {"done", "failed", "cancelled"}

RunIdle ==
    /\ run_pc = "idle"
    /\ account_config = [a \in Accounts |-> "inactive"]
    /\ task_pc = [a \in Accounts |-> "none"]
    /\ awaits = [a \in Accounts |-> 0]
    /\ fault = [a \in Accounts |-> "none"]
    /\ reported = [a \in Accounts |-> FALSE]

\* lines 35-46: the orchestrator holds the accounts of the configuration
RunInit ==
    /\ run_pc = "start"
    /\ account_config \in [Accounts -> AccountConfigs]
    /\ task_pc = [a \in Accounts |-> "none"]
    /\ awaits = [a \in Accounts |-> 0]
    /\ fault = [a \in Accounts |-> "none"]
    /\ reported = [a \in Accounts |-> FALSE]

\* lines 1201-1211: run creates one task per account and awaits gather
StartGather ==
    /\ run_pc = "start"
    /\ task_pc' = [a \in Accounts |-> "created"]
    /\ run_pc' = "gather"
    /\ UNCHANGED <<account_config, awaits, fault, reported>>

\* lines 594-607: the account configuration does not validate; the error is
\* logged and the task returns
ValidateMalformed(a) ==
    /\ task_pc[a] = "created"
    /\ account_config[a] = "malformed"
    /\ fault' = [fault EXCEPT ![a] = "configuration"]
    /\ reported' = [reported EXCEPT ![a] = TRUE]
    /\ task_pc' = [task_pc EXCEPT ![a] = "done"]
    /\ UNCHANGED <<run_pc, account_config, awaits>>

\* lines 609-611: the account is inactive
ValidateInactive(a) ==
    /\ task_pc[a] = "created"
    /\ account_config[a] = "inactive"
    /\ task_pc' = [task_pc EXCEPT ![a] = "done"]
    /\ UNCHANGED <<run_pc, account_config, awaits, fault, reported>>

\* lines 594-618: the account is valid and active; processing starts
ValidateActive(a) ==
    /\ task_pc[a] = "created"
    /\ account_config[a] = "active"
    /\ task_pc' = [task_pc EXCEPT ![a] = "processing"]
    /\ UNCHANGED <<run_pc, account_config, awaits, fault, reported>>

\* lines 618-1180: the processing reaches an await and goes on after it
ProcessAwait(a) ==
    /\ task_pc[a] = "processing"
    /\ awaits[a] < MaxAwaits
    /\ awaits' = [awaits EXCEPT ![a] = @ + 1]
    /\ UNCHANGED <<run_pc, account_config, task_pc, fault, reported>>

\* lines 618-1183: an exception is raised somewhere in the processing; the
\* except clause of the task logs it
ProcessRaises(a) ==
    /\ task_pc[a] = "processing"
    /\ fault' = [fault EXCEPT ![a] = "exception"]
    /\ reported' = [reported EXCEPT ![a] = TRUE]
    /\ task_pc' = [task_pc EXCEPT ![a] = "finally"]
    /\ UNCHANGED <<run_pc, account_config, awaits>>

\* line 1180: the processing ends without an exception
ProcessFinishes(a) ==
    /\ task_pc[a] = "processing"
    /\ task_pc' = [task_pc EXCEPT ![a] = "finally"]
    /\ UNCHANGED <<run_pc, account_config, awaits, fault, reported>>

\* lines 1184-1198: the driver is closed and the task sleeps
CleanupSleeps(a) ==
    /\ task_pc[a] = "finally"
    /\ task_pc' = [task_pc EXCEPT ![a] = "sleeping"]
    /\ UNCHANGED <<run_pc, account_config, awaits, fault, reported>>

\* lines 1185-1186: browser_manager.close_driver() raises inside the finally
\* clause; the exception leaves the task and gather keeps it as the result
CleanupRaises(a) ==
    /\ task_pc[a] = "finally"
    /\ fault' = [fault EXCEPT ![a] = "cleanup"]
    /\ task_pc' = [task_pc EXCEPT ![a] = "failed"]
    /\ UNCHANGED <<run_pc, account_config, awaits, reported>>

\* line 1198: the sleep is over and the task returns
TaskReturns(a) ==
    /\ task_pc[a] = "sleeping"
    /\ task_pc' = [task_pc EXCEPT ![a] = "done"]
    /\ UNCHANGED <<run_pc, account_config, awaits, fault, reported>>

\* lines 1211-1220: gather returns once every task is over, and run logs the
\* exceptions among the results
GatherReturns ==
    /\ run_pc = "gather"
    /\ IF ReturnExceptions
       THEN /\ \A a \in Accounts : TaskOver(a)
            /\ reported' = [a \in Accounts |-> reported[a] \/ task_pc[a] = "failed"]
            /\ task_pc' = task_pc
            /\ run_pc' = "finished"
       ELSE /\ \/ \A a \in Accounts : TaskOver(a)
               \/ \E a \in Accounts : task_pc[a] = "failed"
            /\ reported' = reported
            /\ task_pc' = [a \in Accounts |-> IF TaskOver(a) THEN task_pc[a] ELSE "cancelled"]
            /\ run_pc' = IF \E a \in Accounts : task_pc[a] = "failed" THEN "raised"
                         ELSE "finished"
    /\ UNCHANGED <<account_config, awaits, fault>>

\* the steps of the task of one account
TaskStep(a) ==
    \/ ValidateMalformed(a)
    \/ ValidateInactive(a)
    \/ ValidateActive(a)
    \/ ProcessAwait(a)
    \/ ProcessRaises(a)
    \/ ProcessFinishes(a)
    \/ CleanupSleeps(a)
    \/ CleanupRaises(a)
    \/ TaskReturns(a)

(***************************************************************************)
(* The action flows of _process_account (src/src/main.py): each walks its  *)
(* candidates, consults processed_action_keys, invokes the executor        *)
(* (publisher/engagement) and saves the key of a successful action.        *)
(***************************************************************************)
FlowKinds == {"home_reply", "competitor", "community_like", "community_retweet",
              "community_reply", "keyword_reply", "keyword_retweet", "keyword_like"}

\* the tweets the flows come across
FlowTweetIds == {"t1", "t2"}

\* the first part of the action key of a flow: lines 396, 718, 838, 851, 870,
\* 965, 1136; the competitor flow uses the decided interaction type; the
\* keyword retweet flow (lines 1066-1104) builds no key
KeyKinds(flow) ==
    CASE flow = "home_reply" -> {"home_reply"}
      [] flow = "competitor" -> {"like", "repost", "retweet", "quote_tweet"}
      [] flow = "community_like" -> {"community_like"}
      [] flow = "community_retweet" -> {"community_retweet"}
      [] flow = "community_reply" -> {"community_reply"}
      [] flow = "keyword_reply" -> {"reply"}
      [] flow = "keyword_like" -> {"like"}
      [] flow = "keyword_retweet" -> {}

NoFlowAction == [flow |-> "", key |-> "", checked |-> FALSE, outcome |-> "none"]

FlowIdle ==
    /\ fpc = "off"
    /\ flow_candidate = NoFlowAction
    /\ flow_last = NoFlowAction
    /\ flow_actions = 0

\* line 41: the account task starts with the keys loaded from the store
FlowInit ==
    /\ fpc = "walk"
    /\ flow_candidate = NoFlowAction
    /\ flow_last = NoFlowAction
    /\ flow_actions = 0

\* lines 397-398, 720-722, 839-840, 852-853, 871-873, 966-968, 1137-1139:
\* the key of the candidate is in processed_action_keys; it is passed over
FlowSkip ==
    /\ fpc = "walk"
    /\ \E flow \in FlowKinds, tweet_id \in FlowTweetIds :
          \E kind \in KeyKinds(flow) :
              LET key == ActionKey(kind, account_id, tweet_id)
              IN  /\ key \in processed_action_keys
                  /\ flow_last' = [flow |-> flow, key |-> key, checked |-> TRUE,
                                   outcome |-> "skipped"]
    /\ UNCHANGED <<fpc, flow_candidate, flow_actions, processed_action_keys, store>>

\* the same lines: the key is not in processed_action_keys; the flow goes on
\* to the executor
FlowSelect ==
    /\ fpc = "walk"
    /\ flow_actions < MaxActions
    /\ \E flow \in FlowKinds, tweet_id \in FlowTweetIds :
          \E kind \in KeyKinds(flow) :
              LET key == ActionKey(kind, account_id, tweet_id)
              IN  /\ key \notin processed_action_keys
                  /\ flow_candidate' = [flow |-> flow, key |-> key, checked |-> TRUE,
                                        outcome |-> "none"]
    /\ fpc' = "invoke"
    /\ UNCHANGED <<flow_last, flow_actions, processed_action_keys, store>>

\* lines 1076-1095: the keyword retweet flow goes from its filters to the
\* executor; processed_action_keys is not consulted.  The flow builds no
\* key; the history records the key a retweet has in the competitor flow
\* (line 718).
KeywordRetweetSelect ==
    /\ fpc = "walk"
    /\ flow_actions < MaxActions
    /\ \E tweet_id \in FlowTweetIds :
          flow_candidate' = [flow |-> "keyword_retweet",
                             key |-> ActionKey("retweet", account_id, tweet_id),
                             checked |-> FALSE, outcome |-> "none"]
    /\ fpc' = "invoke"
    /\ UNCHANGED <<flow_last, flow_actions, processed_action_keys, store>>

\* lines 484-516, 734-779, 842-847, 855-862, 929-934, 1046-1055, 1161-1166:
\* the executor reports success and the key is saved; lines 1095-1099: the
\* keyword retweet flow saves nothing
FlowInvokeSucceeds ==
    /\ fpc = "invoke"
    /\ flow_last' = [flow_candidate EXCEPT !.outcome = "success"]
    /\ IF flow_candidate.flow # "keyword_retweet"
       THEN /\ store' = save_processed_action_key(store, flow_candidate.key)
            /\ processed_action_keys' = processed_action_keys \cup {flow_candidate.key}
       ELSE UNCHANGED <<store, processed_action_keys>>
    /\ flow_actions' = flow_actions + 1
    /\ flow_candidate' = NoFlowAction
    /\ fpc' = "walk"

\* the executor reports failure: nothing is saved
FlowInvokeFails ==
    /\ fpc = "invoke"
    /\ flow_last' = [flow_candidate EXCEPT !.outcome = "failure"]
    /\ flow_candidate' = NoFlowAction
    /\ fpc' = "walk"
    /\ UNCHANGED <<flow_actions, processed_action_keys, store>>

(***************************************************************************)
(* The tasks of several accounts (src/src/main.py): all of them consult    *)
(* and extend the one processed_action_keys of the orchestrator (line 41), *)
(* and an await lies between the look-up and the recording of a key.       *)
(***************************************************************************)
\* account_id values of the configuration; one holds an underscore
SharedAccounts == {"a", "a_1"}

\* tweet identifiers made of digits, and one that holds an underscore
NumericTweetIds == {"2", "7"}
SharedTweetIds == NumericTweetIds \cup {"1_2"}

\* the first part of the keys of two flows: lines 1136 and 965
SharedKinds == {"like", "reply"}

NoKeyTask == [pc |-> "walk", kind |-> "", tweet_id |-> ""]
NoKeySkipped == [account |-> "", kind |-> "", tweet_id |-> "", key |-> ""]

SharedIdle ==
    /\ key_task = [a \in SharedAccounts |-> NoKeyTask]
    /\ key_records = {}
    /\ key_skipped = NoKeySkipped

\* line 41: the tasks start with the keys loaded from the store
SharedInit ==
    /\ key_task = [a \in SharedAccounts |-> NoKeyTask]
    /\ key_records = {}
    /\ key_skipped = NoKeySkipped

\* lines 397-398, 720-722, 966-968, 1137-1139: the key of the candidate is
\* in processed_action_keys; the task passes the candidate over
TaskFindsKey(a) ==
    /\ key_task[a].pc = "walk"
    /\ \E kind \in SharedKinds, tweet_id \in SharedTweetIds :
          LET key == ActionKey(kind, a, tweet_id)
          IN  /\ key \in processed_action_keys
              /\ key_skipped' = [account |-> a, kind |-> kind, tweet_id |-> tweet_id,
                                 key |-> key]
    /\ UNCHANGED <<key_task, key_records, processed_action_keys, store>>

\* the same lines: the key is not there; the task goes on to the executor
TaskMissesKey(a) ==
    /\ key_task[a].pc = "walk"
    /\ Cardinality(key_records) < MaxActions
    /\ \E kind \in SharedKinds, tweet_id \in SharedTweetIds :
          /\ ActionKey(kind, a, tweet_id) \notin processed_action_keys
          /\ key_task' = [key_task EXCEPT ![a] = [pc |-> "invoke", kind |-> kind,
                                                  tweet_id |-> tweet_id]]
    /\ UNCHANGED <<key_records, key_skipped, processed_action_keys, store>>

\* lines 1046-1055, 1161-1166: the executor reports success, the key is saved
TaskRecordsKey(a) ==
    /\ key_task[a].pc = "invoke"
    /\ LET key == ActionKey(key_task[a].kind, a, key_task[a].tweet_id)
       IN  /\ store' = save_processed_action_key(store, key)
           /\ processed_action_keys' = processed_action_keys \cup {key}
           /\ key_records' = key_records \cup
                                {[account |-> a, tweet_id |-> key_task[a].tweet_id, key |-> key]}
    /\ key_task' = [key_task EXCEPT ![a] = NoKeyTask]
    /\ UNCHANGED key_skipped

\* the executor reports failure: nothing is saved
TaskActionFails(a) ==
    /\ key_task[a].pc = "invoke"
    /\ key_task' = [key_task EXCEPT ![a] = NoKeyTask]
    /\ UNCHANGED <<key_records, key_skipped, processed_action_keys, store>>

(***************************************************************************)
(* The community engagement of _process_account, main.py lines 807-945:    *)
(* the loop over the tweets scraped from the community.                    *)
(***************************************************************************)
MaxCommunityTweets == 3  \* largest number of tweets of a community scrape

CommunityTweetIds == <<"c1", "c2", "c3", "c4">>

\* max_community_engagements_per_run, max_community_replies_per_run and the
\* three switches of the configuration
CommunityConfigs ==
    [max_community_engagements_per_run : {0, 1, 2},
     max_community_replies_per_run : {0, 1},
     enable_community_likes : BOOLEAN,
     enable_community_retweets : BOOLEAN,
     enable_community_replies : BOOLEAN]

NoCommunityConfig ==
    [max_community_engagements_per_run |-> 0, max_community_replies_per_run |-> 0,
     enable_community_likes |-> FALSE, enable_community_retweets |-> FALSE,
     enable_community_replies |-> FALSE]

\* lines 831-833: repost and quote_tweet collapse to retweet
CommunityAction(decided_action) ==
    IF decided_action \in {"repost", "quote_tweet"} THEN "retweet" ELSE decided_action

\* lines 811 and 939: the cap of the run is reached
CommunityCapReached ==
    total_community_actions >= community_config.max_community_engagements_per_run

CommunityIdle ==
    /\ cpc = "off"
    /\ community_config = NoCommunityConfig
    /\ community_tweets = <<>>
    /\ ct = ""
    /\ total_community_actions = 0
    /\ replies_made_in_community = 0

\* lines 800-808: the scrape has returned, the counters are zero
CommunityInit ==
    /\ cpc = "loop"
    /\ community_config \in CommunityConfigs
    /\ \E n \in 0..MaxCommunityTweets : community_tweets = SubSeq(CommunityTweetIds, 1, n)
    /\ ct = ""
    /\ total_community_actions = 0
    /\ replies_made_in_community = 0

\* line 810: no tweet is left
CommunityExhausted ==
    /\ cpc = "loop"
    /\ community_tweets = <<>>
    /\ cpc' = "done"
    /\ UNCHANGED <<community_config, community_tweets, ct, total_community_actions,
                   replies_made_in_community, processed_action_keys, store>>

\* lines 811-812: the cap is reached at the top of an iteration
CommunityBreak ==
    /\ cpc = "loop"
    /\ community_tweets # <<>>
    /\ CommunityCapReached
    /\ cpc' = "done"
    /\ UNCHANGED <<community_config, community_tweets, ct, total_community_actions,
                   replies_made_in_community, processed_action_keys, store>>

\* lines 819-827: a post of the account itself; the skip key is saved
CommunityOwnPost ==
    /\ cpc = "loop"
    /\ community_tweets # <<>>
    /\ ~CommunityCapReached
    /\ LET skip_key == ActionKey("skip_own", account_id, Head(community_tweets))
       IN  /\ store' = save_processed_action_key(store, skip_key)
           /\ processed_action_keys' = processed_action_keys \cup {skip_key}
    /\ community_tweets' = Tail(community_tweets)
    /\ UNCHANGED <<cpc, community_config, ct, total_community_actions,
                   replies_made_in_community>>

\* lines 829-863: the decision, then the like or the retweet when its switch
\* is on; a key already processed ends the iteration
CommunityLikeOrRetweet ==
    /\ cpc = "loop"
    /\ community_tweets # <<>>
    /\ ~CommunityCapReached
    /\ \E decided_action \in KnownActions, interaction_success \in BOOLEAN :
          LET action == CommunityAction(decided_action)
              enabled == \/ action = "like" /\ community_config.enable_community_likes
                         \/ action = "retweet" /\ community_config.enable_community_retweets
              key == ActionKey("community_" \o action, account_id, Head(community_tweets))
          IN  IF enabled /\ key \in processed_action_keys
              THEN /\ cpc' = "loop"
                   /\ ct' = ""
                   /\ UNCHANGED <<total_community_actions, processed_action_keys, store>>
              ELSE /\ cpc' = "reply"
                   /\ ct' = Head(community_tweets)
                   /\ IF enabled /\ interaction_success
                      THEN /\ store' = save_processed_action_key(store, key)
                           /\ processed_action_keys' = processed_action_keys \cup {key}
                           /\ total_community_actions' = total_community_actions + 1
                      ELSE UNCHANGED <<total_community_actions, processed_action_keys, store>>
    /\ community_tweets' = Tail(community_tweets)
    /\ UNCHANGED <<community_config, replies_made_in_community>>

\* lines 865-941: the reply when its switch is on and the cap of the replies
\* is not reached, then the test of the cap of the run and the sleep
CommunityReply ==
    /\ cpc = "reply"
    /\ \E outcome \in {"too_old", "no_text", "failure", "success"} :
          LET reply_key == ActionKey("community_reply", account_id, ct)
              replied ==
                  /\ community_config.enable_community_replies
                  /\ replies_made_in_community < community_config.max_community_replies_per_run
                  /\ reply_key \notin processed_action_keys
                  /\ outcome = "success"
              total == total_community_actions + (IF replied THEN 1 ELSE 0)
          IN  /\ IF replied
                 THEN /\ store' = save_processed_action_key(store, reply_key)
                      /\ processed_action_keys' = processed_action_keys \cup {reply_key}
                      /\ replies_made_in_community' = replies_made_in_community + 1
                 ELSE UNCHANGED <<store, processed_action_keys, replies_made_in_community>>
              /\ total_community_actions' = total
              /\ cpc' = IF total >= community_config.max_community_engagements_per_run
                        THEN "done" ELSE "loop"
    /\ ct' = ""
    /\ UNCHANGED <<community_config, community_tweets>>

\* lines 943-945: an exception of the decision, of an executor or of the
\* generation ends the community engagement
CommunityRaises ==
    /\ cpc \in {"loop", "reply"}
    /\ cpc = "loop" => community_tweets # <<>> /\ ~CommunityCapReached
    /\ cpc' = "failed"
    /\ UNCHANGED <<community_config, community_tweets, ct, total_community_actions,
                   replies_made_in_community, processed_action_keys, store>>

(***************************************************************************)
(* reply_to_tweet (src/src/features/publisher/reply_handler.py): the links *)
(* of the account collected before the submission, the submission, and the *)
(* verification that a new reply link appeared.                            *)
(***************************************************************************)
NoHandle == ""

\* the handle found by lines 64-77, if any
PrimaryHandles == {NoHandle, "me"}

\* replies of the account that the target conversation holds at the call
OldReplyLinks == {"/me/status/1", "/me/status/2"}

\* a post of the account shown elsewhere only
OtherPostLink == "/me/status/3"

\* the link of the reply the call posts
NewReplyLink == "/me/status/9"

\* lines 78-83: the links by the handle are collected on the page shown at
\* the call, before the navigation of line 86
PreExisting(page, of_conversation, of_other) ==
    IF page = "conversation" THEN of_conversation ELSE of_other

\* lines 259 and 270: links were collected that pre_existing_replies lacks
NewLinksDetected(collected, pre_existing) == collected \ pre_existing # {}

HandlerIdle ==
    /\ hpc = "off"
    /\ primary_handle = NoHandle
    /\ driver_page = "elsewhere"
    /\ conversation_links = {}
    /\ other_links = {}
    /\ pre_existing_replies = {}
    /\ reply_posted = FALSE
    /\ links_seen = {}
    /\ handler_result = "none"

\* lines 44-49: a call; the browser shows the target conversation or another
\* page, such as the home timeline
HandlerInit ==
    /\ hpc = "called"
    /\ primary_handle \in PrimaryHandles
    /\ driver_page \in {"conversation", "elsewhere"}
    /\ conversation_links \in SUBSET OldReplyLinks
    /\ other_links \in SUBSET ({OtherPostLink} \cup OldReplyLinks)
    /\ pre_existing_replies = {}
    /\ reply_posted = FALSE
    /\ links_seen = {}
    /\ handler_result = "none"

\* lines 54-59: the tweet has no URL or the reply text is empty
HandlerRefuses ==
    /\ hpc = "called"
    /\ hpc' = "returned"
    /\ handler_result' = "False"
    /\ UNCHANGED <<primary_handle, driver_page, conversation_links, other_links,
                   pre_existing_replies, reply_posted, links_seen>>

\* lines 64-83: the handles, and the links by the primary handle on the page
\* shown; _collect_existing_reply_links gives the empty set when the driver
\* raises
HandlerCollects ==
    /\ hpc = "called"
    /\ \E driver_raises \in BOOLEAN :
          pre_existing_replies' =
              IF primary_handle # NoHandle /\ ~driver_raises
              THEN PreExisting(driver_page, conversation_links, other_links)
              ELSE {}
    /\ hpc' = "submit"
    /\ UNCHANGED <<primary_handle, driver_page, conversation_links, other_links,
                   reply_posted, links_seen, handler_result>>

\* lines 85-232 and 279-288: the navigation to the tweet; the reply is not
\* submitted (a return False, a timeout or another exception)
HandlerNotSubmitted ==
    /\ hpc = "submit"
    /\ driver_page' = "conversation"
    /\ hpc' = "returned"
    /\ handler_result' = "False"
    /\ UNCHANGED <<primary_handle, conversation_links, other_links, pre_existing_replies,
                   reply_posted, links_seen>>

\* lines 85-255: the navigation to the tweet and the submission; an error
\* banner of the platform is logged only (lines 236-247)
HandlerSubmits ==
    /\ hpc = "submit"
    /\ driver_page' = "conversation"
    /\ reply_posted' \in BOOLEAN
    /\ hpc' = "verify"
    /\ UNCHANGED <<primary_handle, conversation_links, other_links, pre_existing_replies,
                   links_seen, handler_result>>

\* lines 257-278: with a primary handle, True when the links collected in the
\* conversation, at once or after the refresh, hold one that
\* pre_existing_replies lacks, else False; without one, True
HandlerVerifies ==
    /\ hpc = "verify"
    /\ LET shown == conversation_links \cup (IF reply_posted THEN {NewReplyLink} ELSE {})
       IN  \E collected \in {shown, {}} :
              /\ links_seen' = IF primary_handle # NoHandle THEN collected ELSE {}
              /\ handler_result' =
                    IF primary_handle = NoHandle THEN "True"
                    ELSE IF NewLinksDetected(collected, pre_existing_replies) THEN "True"
                    ELSE "False"
    /\ hpc' = "returned"
    /\ UNCHANGED <<primary_handle, driver_page, conversation_links, other_links,
                   pre_existing_replies, reply_posted>>

(***************************************************************************)
(* The pacing parameters of a session, main.py lines 191-195 and 320-328,  *)
(* and the delay drawn after an executor call, line 486.                   *)
(***************************************************************************)
\* configured home_timeline_replies_per_hour, min_delay_between_actions_seconds
\* and max_delay_between_actions_seconds
PacingRphConfigs == {-1, 0, 1, 2, 6, 360, 720}
PacingMinDelayConfigs == {0, 5, 10, 600, 3600}
PacingMaxDelayConfigs == {0, 10, 600, 3600, 5400}

NoActionConfig == [home_timeline_replies_per_hour |-> 0,
                   min_delay_between_actions_seconds |-> 0,
                   max_delay_between_actions_seconds |-> 0]

\* random.uniform(a, b): the two ends and the middle
Uniform(a, b) == {a, (a + b) \div 2, b}

PacingIdle ==
    /\ ppc = "off"
    /\ action_config = NoActionConfig
    /\ pacing = [spacing_min_seconds |-> 0, spacing_max_seconds |-> 0]
    /\ delay_drawn = 0

PacingInit ==
    /\ ppc = "config"
    /\ action_config \in [home_timeline_replies_per_hour : PacingRphConfigs,
                          min_delay_between_actions_seconds : PacingMinDelayConfigs,
                          max_delay_between_actions_seconds : PacingMaxDelayConfigs]
    /\ pacing = [spacing_min_seconds |-> 0, spacing_max_seconds |-> 0]
    /\ delay_drawn = 0

\* lines 191-195 and 320-328
DerivePacing ==
    /\ ppc = "config"
    /\ LET rph == EffectiveRepliesPerHour(action_config.home_timeline_replies_per_hour)
           mind == Max(MinDelayFloor, action_config.min_delay_between_actions_seconds)
           maxd == Max(mind, action_config.max_delay_between_actions_seconds)
       IN  pacing' = [spacing_min_seconds |-> spacing_min_seconds(rph, mind),
                      spacing_max_seconds |-> spacing_max_seconds(rph, mind, maxd)]
    /\ ppc' = "paced"
    /\ UNCHANGED <<action_config, delay_drawn>>

\* line 486
DrawDelay ==
    /\ ppc = "paced"
    /\ delay_drawn' \in Uniform(pacing.spacing_min_seconds, pacing.spacing_max_seconds)
    /\ ppc' = "drawn"
    /\ UNCHANGED <<action_config, pacing>>

(***************************************************************************)
(* extract_keywords_from_texts (src/src/utils/text_utils.py), called on    *)
(* one text made of words of a small vocabulary.                           *)
(***************************************************************************)
MaxWords == 3  \* largest number of words of a text

\* a stopword, a token of two characters, and words of three and four
\* characters, one of them in two spellings
KeywordWords == { <<"t", "h", "e">>, <<"a", "i">>, <<"c", "a", "t">>, <<"d", "o", "g">>,
                  <<"D", "o", "g">>, <<"b", "i", "r", "d">> }

\* the texts of n words, each followed by a space
RECURSIVE TextsOfWords(_)
TextsOfWords(n) ==
    IF n = 0 THEN {<<>>}
    ELSE {w \o <<" ">> \o rest : w \in KeywordWords, rest \in TextsOfWords(n - 1)}

KeywordTexts == UNION {TextsOfWords(n) : n \in 0..MaxWords}

\* max_keywords of the callers: 1, 2, and the default 8
KeywordLimits == {1, 2, 8}

KeywordsIdle ==
    /\ kpc = "off"
    /\ keyword_text = <<>>
    /\ keyword_limit = 8
    /\ top_tokens = <<>>

KeywordsInit ==
    /\ kpc = "called"
    /\ keyword_text \in KeywordTexts
    /\ keyword_limit \in KeywordLimits
    /\ top_tokens = <<>>

\* lines 130-155: the call returns the keywords
ExtractKeywords ==
    /\ kpc = "called"
    /\ top_tokens' = extract_keywords_from_texts(keyword_text, keyword_limit)
    /\ kpc' = "returned"
    /\ UNCHANGED <<keyword_text, keyword_limit>>

(***************************************************************************)
(* build_style_snapshot (src/src/features/publisher/style_utils.py): the   *)
(* context text built from the tweets supplied.  The tweets of a call have *)
(* distinct ids and the same text and timestamp, so that none is dropped   *)
(* by the deduplication and the sort leaves them in place.                 *)
(***************************************************************************)
MaxTweets == 5  \* largest number of tweets handed to a call

SNIPPET_CHARS == 220
CONTEXT_CHARS == 800

\* a text of n characters with a space wherever the position is a multiple
\* of period, and a second one after it when the period is above 4
RawText(n, period) ==
    [i \in 1..n |-> IF i % period = 0 \/ (period > 4 /\ i % period = 1) THEN " " ELSE "x"]

SnapshotTexts ==
    {RawText(n, period) : n \in {0, 3, 150, 219, 220, 221, 300}, period \in {2, 3, 7, 400}}

\* " ".join(text_raw.split()): the white space at both ends goes, and every
\* other run of white space becomes one space
Kept(mark) == mark.keep
JoinSplit(str) ==
    LET ws(i) == str[i] \in WhiteSpace
        marks == [i \in 1..Len(str) |->
                    [char |-> IF ws(i) THEN " " ELSE str[i],
                     keep |-> \/ ~ws(i)
                              \/ i > 1 /\ ~ws(i - 1) /\ i < LastInk(str)]]
        kept == SelectSeq(marks, Kept)
    IN  [k \in 1..Len(kept) |-> kept[k].char]

\* lines 87-88
Snippet(text_raw) == Truncate(JoinSplit(text_raw), SNIPPET_CHARS)

\* lines 89-99: strftime("%Y-%m-%d %H:%M UTC") of created_at, or "Unknown time"
TimestampLabel(dated) ==
    IF dated THEN <<"2", "0", "2", "5", "-", "0", "1", "-", "0", "1", " ", "0", "0", ":", "0", "0", " ", "U", "T", "C">>
    ELSE <<"U", "n", "k", "n", "o", "w", "n", " ", "t", "i", "m", "e">>

\* lines 109-111: f"{idx}. {timestamp_label} | {snippet}"
ContextLine(idx, dated, text_raw) ==
    <<Digits[idx + 1], ".", " ">> \o TimestampLabel(dated) \o <<" ", "|", " ">> \o Snippet(text_raw)

\* "\n".join(context_lines) for the first n tweets
RECURSIVE JoinedLines(_, _, _)
JoinedLines(n, dated, text_raw) ==
    IF n = 0 THEN <<>>
    ELSE IF n = 1 THEN ContextLine(1, dated, text_raw)
    ELSE JoinedLines(n - 1, dated, text_raw) \o <<"\n">> \o ContextLine(n, dated, text_raw)

SnapshotHeader ==
    <<"R", "e", "c", "e", "n", "t", " ", "p", "e", "r", "s", "o", "n", "a", "l", " ", "p", "o", "s", "t", "i", "n", "g", " ", "s", "n", "a", "p", "s", "h", "o", "t", ":", "\n">>

\* the character U+2026, one element of a text
Ellipsis == "U+2026"

\* lines 127-129: the cut of a context text that is too long
CapContext(text) ==
    IF Len(text) > CONTEXT_CHARS
    THEN RStrip(Truncate(text, CONTEXT_CHARS)) \o <<Ellipsis>>
    ELSE text

NoTweets == [count |-> 0, dated |-> FALSE, text_raw |-> <<>>]

SnapshotIdle ==
    /\ snap_pc = "off"
    /\ snap_tweets = NoTweets
    /\ max_items = 5
    /\ style_context_text = <<>>

\* lines 54-59: the arguments of a call
SnapshotInit ==
    /\ snap_pc = "called"
    /\ snap_tweets \in [count : 0..MaxTweets, dated : BOOLEAN, text_raw : SnapshotTexts]
    /\ max_items \in {3, 5}
    /\ style_context_text = <<>>

\* lines 60-155: the call returns; style_context_text is the first of the
\* two values returned
BuildStyleSnapshot ==
    /\ snap_pc = "called"
    /\ style_context_text' =
          IF snap_tweets.count = 0 THEN <<>>
          ELSE CapContext(SnapshotHeader
                          \o JoinedLines(Min(snap_tweets.count, max_items),
                                         snap_tweets.dated, snap_tweets.text_raw))
    /\ snap_pc' = "returned"
    /\ UNCHANGED <<snap_tweets, max_items>>

(***************************************************************************)
(* The specifications.                                                     *)
(***************************************************************************)
Init == SchedInit /\ GuardIdle /\ StyleIdle /\ RouterIdle /\ DecideIdle /\ RunIdle /\ FlowIdle /\ PacingIdle /\ KeywordsIdle /\ SnapshotIdle /\ SharedIdle /\ CommunityIdle /\ HandlerIdle

Next ==
    \/ StartSession /\ UNCHANGED notSched
    \/ SessionCapReached /\ UNCHANGED notSched
    \/ SessionTimeUp /\ UNCHANGED notSched
    \/ CooldownStart /\ UNCHANGED notSched
    \/ CooldownWake /\ UNCHANGED notSched
    \/ FetchBatch /\ UNCHANGED notSched
    \/ FetchEmpty /\ UNCHANGED notSched
    \/ ScanSkip /\ UNCHANGED notSched
    \/ ScanSelect /\ UNCHANGED notSched
    \/ ScanEnd /\ UNCHANGED notSched
    \/ GenerateNothing /\ UNCHANGED notSched
    \/ GenerateReply /\ UNCHANGED notSched
    \/ PaceAndInvoke /\ UNCHANGED notSched
    \/ ReplySucceeded /\ UNCHANGED notSched
    \/ ReplyFailed /\ UNCHANGED notSched
    \/ ReplyRaised /\ UNCHANGED notSched
    \/ Restart /\ UNCHANGED notSched

Spec == Init /\ [][Next]_vars

GuardNext ==
    \/ AttemptNoStructured /\ UNCHANGED notGuard
    \/ AttemptRejected /\ UNCHANGED notGuard
    \/ AttemptAccepted /\ UNCHANGED notGuard
    \/ AttemptRaised /\ UNCHANGED notGuard
    \/ Exhausted /\ UNCHANGED notGuard

InitGuard == GuardInit /\ SchedInit /\ StyleIdle /\ RouterIdle /\ DecideIdle /\ RunIdle /\ FlowIdle /\ PacingIdle /\ KeywordsIdle /\ SnapshotIdle /\ SharedIdle /\ CommunityIdle /\ HandlerIdle

SpecGuard == InitGuard /\ [][GuardNext]_vars

InitCall == CallInit /\ SchedInit /\ StyleIdle /\ RouterIdle /\ DecideIdle /\ RunIdle /\ FlowIdle /\ PacingIdle /\ KeywordsIdle /\ SnapshotIdle /\ SharedIdle /\ CommunityIdle /\ HandlerIdle

SpecCall == InitCall /\ [][GuardNext]_vars

StyleNext == ApplyStyleProfile /\ UNCHANGED notStyle

InitStyle == StyleInit /\ SchedInit /\ GuardIdle /\ RouterIdle /\ DecideIdle /\ RunIdle /\ FlowIdle /\ PacingIdle /\ KeywordsIdle /\ SnapshotIdle /\ SharedIdle /\ CommunityIdle /\ HandlerIdle

SpecStyle == InitStyle /\ [][StyleNext]_vars

RouterNext ==
    \/ GenerateTextCall /\ UNCHANGED notRouter
    \/ InvokeReturns /\ UNCHANGED notRouter
    \/ InvokeRaises /\ UNCHANGED notRouter
    \/ SkipNoDeployment /\ UNCHANGED notRouter
    \/ SkipNoClient /\ UNCHANGED notRouter
    \/ SkipUnknown /\ UNCHANGED notRouter
    \/ ReturnNone /\ UNCHANGED notRouter

InitRouter == RouterInit /\ SchedInit /\ GuardIdle /\ StyleIdle /\ DecideIdle /\ RunIdle /\ FlowIdle /\ PacingIdle /\ KeywordsIdle /\ SnapshotIdle /\ SharedIdle /\ CommunityIdle /\ HandlerIdle

SpecRouter == InitRouter /\ [][RouterNext]_vars

DecideNext ==
    \/ DecisionDisabled /\ UNCHANGED notDecide
    \/ StructuredFloor /\ UNCHANGED notDecide
    \/ StructuredRecommendation /\ UNCHANGED notDecide
    \/ StructuredUnusable /\ UNCHANGED notDecide
    \/ FallbackDecision /\ UNCHANGED notDecide

InitDecide == DecideInit /\ SchedInit /\ GuardIdle /\ StyleIdle /\ RouterIdle /\ RunIdle /\ FlowIdle /\ PacingIdle /\ KeywordsIdle /\ SnapshotIdle /\ SharedIdle /\ CommunityIdle /\ HandlerIdle

SpecDecide == InitDecide /\ [][DecideNext]_vars

RunNext ==
    \/ StartGather /\ UNCHANGED notRun
    \/ GatherReturns /\ UNCHANGED notRun
    \/ \E a \in Accounts : TaskStep(a) /\ UNCHANGED notRun

InitRun == RunInit /\ SchedInit /\ GuardIdle /\ StyleIdle /\ RouterIdle /\ DecideIdle /\ FlowIdle /\ PacingIdle /\ KeywordsIdle /\ SnapshotIdle /\ SharedIdle /\ CommunityIdle /\ HandlerIdle

\* the event loop runs every task that is ready, and run itself
RunFairness ==
    /\ WF_vars(StartGather /\ UNCHANGED notRun)
    /\ WF_vars(GatherReturns /\ UNCHANGED notRun)
    /\ \A a \in Accounts : WF_vars(TaskStep(a) /\ UNCHANGED notRun)

SpecRun == InitRun /\ [][RunNext]_vars /\ RunFairness

FlowNext ==
    \/ FlowSkip /\ UNCHANGED notFlow
    \/ FlowSelect /\ UNCHANGED notFlow
    \/ KeywordRetweetSelect /\ UNCHANGED notFlow
    \/ FlowInvokeSucceeds /\ UNCHANGED notFlow
    \/ FlowInvokeFails /\ UNCHANGED notFlow

InitFlow == FlowInit /\ SchedInit /\ GuardIdle /\ StyleIdle /\ RouterIdle /\ DecideIdle /\ RunIdle /\ PacingIdle /\ KeywordsIdle /\ SnapshotIdle /\ SharedIdle /\ CommunityIdle /\ HandlerIdle

SpecFlow == InitFlow /\ [][FlowNext]_vars

PacingNext ==
    \/ DerivePacing /\ UNCHANGED notPacing
    \/ DrawDelay /\ UNCHANGED notPacing

InitPacing == PacingInit /\ SchedInit /\ GuardIdle /\ StyleIdle /\ RouterIdle /\ DecideIdle /\ RunIdle /\ FlowIdle /\ KeywordsIdle /\ SnapshotIdle /\ SharedIdle /\ CommunityIdle /\ HandlerIdle

SpecPacing == InitPacing /\ [][PacingNext]_vars

KeywordsNext == ExtractKeywords /\ UNCHANGED notKeywords

InitKeywords == KeywordsInit /\ SchedInit /\ GuardIdle /\ StyleIdle /\ RouterIdle /\ DecideIdle /\ RunIdle /\ FlowIdle /\ PacingIdle /\ SnapshotIdle /\ SharedIdle /\ CommunityIdle /\ HandlerIdle

SpecKeywords == InitKeywords /\ [][KeywordsNext]_vars

SnapshotNext == BuildStyleSnapshot /\ UNCHANGED notSnapshot

InitSnapshot == SnapshotInit /\ SchedInit /\ GuardIdle /\ StyleIdle /\ RouterIdle /\ DecideIdle /\ RunIdle /\ FlowIdle /\ PacingIdle /\ KeywordsIdle /\ SharedIdle /\ CommunityIdle /\ HandlerIdle

SpecSnapshot == InitSnapshot /\ [][SnapshotNext]_vars

SharedNext ==
    \/ \E a \in SharedAccounts : TaskFindsKey(a) /\ UNCHANGED notShared
    \/ \E a \in SharedAccounts : TaskMissesKey(a) /\ UNCHANGED notShared
    \/ \E a \in SharedAccounts : TaskRecordsKey(a) /\ UNCHANGED notShared
    \/ \E a \in SharedAccounts : TaskActionFails(a) /\ UNCHANGED notShared

InitShared == SharedInit /\ SchedInit /\ GuardIdle /\ StyleIdle /\ RouterIdle /\ DecideIdle /\ RunIdle /\ FlowIdle /\ PacingIdle /\ KeywordsIdle /\ SnapshotIdle /\ CommunityIdle /\ HandlerIdle

SpecShared == InitShared /\ [][SharedNext]_vars

CommunityNext ==
    \/ CommunityExhausted /\ UNCHANGED notCommunity
    \/ CommunityBreak /\ UNCHANGED notCommunity
    \/ CommunityOwnPost /\ UNCHANGED notCommunity
    \/ CommunityLikeOrRetweet /\ UNCHANGED notCommunity
    \/ CommunityReply /\ UNCHANGED notCommunity
    \/ CommunityRaises /\ UNCHANGED notCommunity

InitCommunity == CommunityInit /\ SchedInit /\ GuardIdle /\ StyleIdle /\ RouterIdle /\ DecideIdle /\ RunIdle /\ FlowIdle /\ PacingIdle /\ KeywordsIdle /\ SnapshotIdle /\ SharedIdle /\ HandlerIdle

SpecCommunity == InitCommunity /\ [][CommunityNext]_vars

HandlerNext ==
    \/ HandlerRefuses /\ UNCHANGED notHandler
    \/ HandlerCollects /\ UNCHANGED notHandler
    \/ HandlerNotSubmitted /\ UNCHANGED notHandler
    \/ HandlerSubmits /\ UNCHANGED notHandler
    \/ HandlerVerifies /\ UNCHANGED notHandler

InitHandler == HandlerInit /\ SchedInit /\ GuardIdle /\ StyleIdle /\ RouterIdle /\ DecideIdle /\ RunIdle /\ FlowIdle /\ PacingIdle /\ KeywordsIdle /\ SnapshotIdle /\ SharedIdle /\ CommunityIdle

SpecHandler == InitHandler /\ [][HandlerNext]_vars

(***************************************************************************)
(* Properties of the session (checked under Spec).                         *)
(***************************************************************************)
\* the executor invocations of the rolling hour [t, t + 3600)
InvocationsInHourFrom(t) ==
    {j \in DOMAIN execLog : execLog[j].at >= t /\ execLog[j].at < t + HourSeconds}

\* C1: in a session, no rolling hour [t, t + 3600s) holds more than
\* replies_per_hour executor invocations (publisher.reply_to_tweet calls).
\* A window that starts at an invocation holds the most.
C1_RollingHourCap ==
    \A i \in DOMAIN execLog :
        Cardinality(InvocationsInHourFrom(execLog[i].at)) <= replies_per_hour

\* an invocation under way that fills the rolling hour with replies_per_hour
\* invocations
C1_Witness ==
    /\ pc = "exec"
    /\ replies_per_hour = 2
    /\ replies_sent_total >= 1
    /\ \E i \in DOMAIN execLog :
          Cardinality(InvocationsInHourFrom(execLog[i].at)) = replies_per_hour

\* C2: the successful replies of the session never exceed
\* replies_per_hour * max_hours, and the per-hour counter never exceeds
\* replies_per_hour.
C2_CountersWithinCaps ==
    /\ replies_sent_total <= replies_per_hour * max_hours
    /\ replies_this_hour <= replies_per_hour

\* both counters at their caps, in a session of several hours
C2_Witness ==
    /\ replies_per_hour = 1
    /\ max_hours = 2
    /\ current_hour_start > 0
    /\ replies_sent_total = replies_per_hour * max_hours
    /\ replies_this_hour = replies_per_hour

\* C3: the executor is never invoked for an action key that is in the
\* persisted dedup store, in the session that saved it or in a later one.
C3_PersistedKeyNeverInvokedAgain ==
    \A i \in DOMAIN execLog : ~execLog[i].persisted

\* a later session is offered a tweet whose key an earlier session persisted
C3_Witness ==
    /\ sessions = 2
    /\ pc = "scan"
    /\ replies_sent_total = 0
    /\ scored_candidates # <<>>
    /\ Head(scored_candidates).tweet_id # ""
    /\ action_key(Head(scored_candidates)) \in store

(***************************************************************************)
(* Properties of generate_guarded_reply (checked under SpecGuard).         *)
(***************************************************************************)
\* C4: an accepted reply text is not empty and has at most 270 characters.
C4_AcceptedReplyWithinLimit ==
    result.status = "accepted" =>
        /\ Len(result.text) >= 1
        /\ Len(result.text) <= MAX_REPLY_CHARS

\* a reply longer than the limit was accepted, cut to the limit
C4_Witness ==
    /\ result.status = "accepted"
    /\ Len(last_response.reply_text) > MAX_REPLY_CHARS
    /\ Len(result.text) = MAX_REPLY_CHARS

\* C5: on every return, metadata.attempts is the number of
\* generate_structured calls made.
C5_AttemptsEqualCalls ==
    gpc = "done" => result.attempts = calls

\* accepted on the second call
C5_Witness ==
    /\ gpc = "done"
    /\ result.status = "accepted"
    /\ calls = 2

\* C6, as claimed: attempts and calls never exceed retry_limit.
C6_AttemptsWithinRetryLimit ==
    gpc = "done" => (result.attempts <= retry_limit /\ calls <= retry_limit)

\* C6, amended: attempts and calls never exceed max(1, retry_limit).
C6_AttemptsWithinEffectiveLimit ==
    /\ calls <= (IF retry_limit > 1 THEN retry_limit ELSE 1)
    /\ gpc = "done" => result.attempts <= (IF retry_limit > 1 THEN retry_limit ELSE 1)

\* a call with retry_limit below 1 returned after one attempt
C6_Witness ==
    /\ gpc = "done"
    /\ retry_limit < 1
    /\ result.attempts = 1
    /\ calls = 1

\* the term is in the tweet text as written, or among the keywords
LicensedVerbatim(term) ==
    \/ Contains(text_content, term)
    \/ term \in Range(ContextKeywords(text_content))

\* C7: a default off-topic term that the tweet text or the keyword set holds
\* verbatim is never a reason to reject a reply.
C7_LicensedTermNeverRejects ==
    \A term \in Range(DEFAULT_OFF_TOPIC_TERMS) :
        LicensedVerbatim(term) => term \notin Range(last_error.terms)

\* the term is neither in the tweet text (in any case) nor among the keywords
Unlicensed(term) ==
    /\ ~Contains(LowerStr(text_content), term)
    /\ term \notin Range(ContextKeywords(text_content))

\* the latest attempt was rejected and its failure reason names the term
RejectedNaming(term) ==
    /\ result.status # "accepted"
    /\ last_error.msg = "Reply referenced off-topic terms"
    /\ term \in Range(last_error.terms)

\* C8, as claimed: a non-empty relevant reply that contains an unlicensed
\* default term is rejected with a reason naming the term.
C8_UnlicensedTermRejects ==
    (last_response.kind = "data" /\ last_response.is_relevant
        /\ Strip(last_response.reply_text) # <<>>) =>
        \A term \in Range(DEFAULT_OFF_TOPIC_TERMS) :
            (Contains(LowerStr(last_response.reply_text), term) /\ Unlicensed(term))
                => RejectedNaming(term)

\* the reply as it would be posted: stripped, cut to 270 characters
PostedText(raw) == RStrip(SubSeq(Strip(raw), 1, Min(MAX_REPLY_CHARS, Len(Strip(raw)))))

\* C8, amended: a non-empty relevant reply whose text, cut to the 270
\* character limit, contains an unlicensed default term is rejected with a
\* reason naming the term.
C8_UnlicensedTermInCutReplyRejects ==
    (last_response.kind = "data" /\ last_response.is_relevant
        /\ Strip(last_response.reply_text) # <<>>) =>
        \A term \in Range(DEFAULT_OFF_TOPIC_TERMS) :
            (Contains(LowerStr(PostedText(last_response.reply_text)), term)
                /\ Unlicensed(term))
                => RejectedNaming(term)

\* a relevant reply was rejected for two unlicensed terms, one of them
\* written in upper case
C8_Witness ==
    /\ last_response.kind = "data"
    /\ last_response.is_relevant
    /\ last_error.msg = "Reply referenced off-topic terms"
    /\ Len(last_error.terms) = 2
    /\ \E term \in Range(last_error.terms) : ~Contains(last_response.reply_text, term)

\* C9: the first attempt that passes every guardrail is returned: its text
\* trimmed, attempts = its number = the calls made, no flagged terms, and
\* no call after it.
C9_FirstPassingAttemptReturned ==
    /\ result.status = "accepted" =>
          /\ gpc = "done"
          /\ result.text = PostedText(last_response.reply_text)
          /\ result.attempts = attempt + 1
          /\ result.attempts = calls
          /\ result.attempts <= (IF retry_limit > 1 THEN retry_limit ELSE 1)
          /\ result.flagged_terms = <<>>
    /\ (last_response.kind = "data" /\ AttemptError(last_response, text_content) = None)
          => result.status = "accepted"

\* the second attempt was accepted after a rejected first one, and its text
\* was trimmed
C9_Witness ==
    /\ result.status = "accepted"
    /\ result.attempts = 2
    /\ last_error # None
    /\ Len(result.text) < Len(last_response.reply_text)

\* the failure reason of a response
FailureOf(response) ==
    IF response.kind = "none"
    THEN (IF response.err # "" THEN Message(response.err) ELSE NoStructuredResponse)
    ELSE AttemptError(response, text_content)

\* C10: when every attempt is rejected, the text is None, the reason is the
\* failure reason of the last attempt, and attempts is the number made.
C10_ExhaustionReportsLastFailure ==
    (gpc = "done" /\ result.status = "none") =>
        /\ result.text = <<>>
        /\ result.relevance_reason = FailureOf(last_response)
        /\ result.relevance_reason # None
        /\ result.attempts = calls

\* two attempts failed for different reasons
C10_Witness ==
    /\ gpc = "done"
    /\ result.status = "none"
    /\ calls = 2
    /\ feedback # None
    /\ feedback # result.relevance_reason

\* C11: an attempt whose reply_text is empty or white space only is rejected
\* with "No reply text returned.", whatever is_relevant and relevance_reason
\* are; the reason is the one returned when the attempt is the last.
C11_EmptyReplyRejectedAsMissing ==
    (last_response.kind = "data" /\ Strip(last_response.reply_text) = <<>>) =>
        /\ result.status # "accepted"
        /\ last_error = NoReplyText
        /\ gpc = "done" => result.relevance_reason = NoReplyText

\* a white-space reply flagged not relevant, with a reason of its own, was the
\* last attempt
C11_Witness ==
    /\ gpc = "done"
    /\ last_response.kind = "data"
    /\ last_response.reply_text = <<" ", " ">>
    /\ ~last_response.is_relevant
    /\ Strip(last_response.relevance_reason) # <<>>
    /\ result.relevance_reason = NoReplyText

\* the failure recorded for a reply flagged not relevant
RelevanceFailure(response) ==
    IF Strip(response.relevance_reason) # <<>>
    THEN RelevanceReason(Strip(response.relevance_reason))
    ELSE NotRelevant

\* C19, as claimed: whenever the structured result has is_relevant = false,
\* the attempt is rejected and the failure recorded (and returned when the
\* attempt is the last) is the result's relevance_reason, an empty
\* reply_text included.
C19_IrrelevantRecordsRelevanceReason ==
    (last_response.kind = "data" /\ ~last_response.is_relevant) =>
        /\ result.status # "accepted"
        /\ last_error = RelevanceReason(Strip(last_response.relevance_reason))
        /\ gpc = "done" =>
              result.relevance_reason = RelevanceReason(Strip(last_response.relevance_reason))

\* C19, amended: whenever the structured result has is_relevant = false and
\* a reply_text that is not empty after trimming, the attempt is rejected and
\* the failure recorded (and returned when the attempt is the last) is the
\* stripped relevance_reason, or "Model flagged reply as not relevant." when
\* that is empty.
C19_IrrelevantWithTextRecordsRelevanceFailure ==
    (last_response.kind = "data" /\ ~last_response.is_relevant
        /\ Strip(last_response.reply_text) # <<>>) =>
        /\ result.status # "accepted"
        /\ last_error = RelevanceFailure(last_response)
        /\ gpc = "done" => result.relevance_reason = RelevanceFailure(last_response)

\* the last attempt was flagged not relevant with a reason, its text carried
\* an off-topic term, and the stripped reason is returned
C19_Witness ==
    /\ gpc = "done"
    /\ last_response.kind = "data"
    /\ ~last_response.is_relevant
    /\ FlaggedTerms(last_response, text_content) # <<>>
    /\ result.relevance_reason.msg = "relevance_reason"
    /\ result.relevance_reason.text = <<"o", "f", "f", " ", "t", "o", "p", "i", "c">>

\* C20, as claimed: no failure inside an attempt (no structured result, a
\* guardrail violation, the generation call raising) ends the retry loop
\* before retry_limit attempts have been made.
C20_FailureNeverEndsLoopEarly ==
    (gpc = "raised" \/ (gpc = "done" /\ result.status = "none")) =>
        calls >= retry_limit

(***************************************************************************)
(* Properties of should_apply_style_profile (checked under SpecStyle).     *)
(***************************************************************************)
\* the lower-cased style keyword set
StyleKeywordSet == {LowerStr(style_keywords[i]) : i \in DOMAIN style_keywords}

\* C12: should_apply_style_profile(item, styleKeywords) is true exactly when
\* styleKeywords is not empty, the candidate is not classified humorous and
\* its normalized token set meets the lower-cased style keyword set; it is
\* false for every humorous candidate.
C12_StyleProfileDecision ==
    stpc = "returned" =>
        /\ use_style_profile =
              (/\ Len(style_keywords) > 0
               /\ ~is_probably_humorous(Strip(style_text))
               /\ tokenize_for_overlap(Strip(style_text)) \cap StyleKeywordSet # {})
        /\ is_probably_humorous(Strip(style_text)) => use_style_profile = FALSE

\* a humorous candidate whose tokens meet the style keywords was refused
C12_Witness ==
    /\ stpc = "returned"
    /\ is_probably_humorous(Strip(style_text))
    /\ tokenize_for_overlap(Strip(style_text)) \cap StyleKeywordSet # {}
    /\ use_style_profile = FALSE

(***************************************************************************)
(* Properties of TextGenerator.generate_text (checked under SpecRouter).   *)
(***************************************************************************)
\* the names of the services the loop went through, in order
TriedNames == [i \in DOMAIN tried |-> tried[i].name]

\* the positions of the history at which a client was invoked
InvokedAt == {i \in DOMAIN tried : tried[i].outcome \in {"returned", "raised"}}

IsPrefix(short, long) ==
    Len(short) <= Len(long) /\ \A i \in DOMAIN short : short[i] = long[i]

\* the configured order without every entry naming the preferred service
OrderWithoutPreferred ==
    SelectSeq(service_preference_order, LAMBDA name : name # service_preference)

\* the attempt order as claimed: the preferred service, then the remaining
\* configured services
ClaimedAttemptOrder ==
    IF service_preference = "" THEN service_preference_order
    ELSE <<service_preference>> \o OrderWithoutPreferred

\* the configured order without its first entry naming the preferred service
OrderWithoutFirstPreferred ==
    LET firsts == {i \in DOMAIN service_preference_order :
                      /\ service_preference_order[i] = service_preference
                      /\ \A j \in 1..(i - 1) :
                            service_preference_order[j] # service_preference}
    IN  [k \in 1..(Len(service_preference_order) - Cardinality(firsts)) |->
            IF \E i \in firsts : i <= k THEN service_preference_order[k + 1]
            ELSE service_preference_order[k]]

\* the attempt order of the amended claim
EntryAttemptOrder ==
    IF service_preference = "" THEN service_preference_order
    ELSE <<service_preference>> \o OrderWithoutFirstPreferred

\* no service after the first one that returns is invoked
ReturnEndsTheCall ==
    \A i \in DOMAIN tried :
        tried[i].outcome = "returned" => (i = Len(tried) /\ rpc = "returned")

\* C13, as claimed: the services are tried in the order preferred service,
\* then the remaining configured services in configured order; each service
\* is invoked at most once per call; none is invoked after one returned.
C13_AttemptOrderEachBackendOnce ==
    rpc \in {"loop", "returned"} =>
        /\ IsPrefix(TriedNames, ClaimedAttemptOrder)
        /\ \A i, j \in InvokedAt : tried[i].name = tried[j].name => i = j
        /\ ReturnEndsTheCall

\* C13, amended: the services are tried in the order preferred service (its
\* first entry moved to the front, or prepended), then the other entries of
\* the configured order in their order; each entry is tried at most once, so
\* a service the attempt order names once is invoked at most once; none is
\* invoked after one returned.
C13_AttemptOrderEachEntryOnce ==
    rpc \in {"loop", "returned"} =>
        /\ IsPrefix(TriedNames, EntryAttemptOrder)
        /\ \A i, j \in InvokedAt :
              (tried[i].name = tried[j].name /\ i # j) =>
                  Cardinality({k \in DOMAIN EntryAttemptOrder :
                                  EntryAttemptOrder[k] = tried[i].name}) > 1
        /\ ReturnEndsTheCall

\* the preferred service, third of the default order, was invoked first and
\* raised; the first configured one returned and the second was not tried
C13_Witness ==
    /\ rpc = "returned"
    /\ service_preference_order = DefaultServicePreferenceOrder
    /\ service_preference = "gemini"
    /\ tried = <<[name |-> "gemini", outcome |-> "raised"],
                 [name |-> "azure", outcome |-> "returned"]>>

\* C14: whatever a backend invocation raises, generate_text does not raise:
\* the loop goes on with the next service, and None is returned when none is
\* left.
C14_BackendExceptionNeverPropagates ==
    /\ rpc # "raised"
    /\ \A i \in DOMAIN tried :
          tried[i].outcome = "raised" =>
              /\ service_index > i
              /\ (i = Len(services_to_try) /\ rpc = "returned") => generated = "None"
    /\ (rpc = "returned" /\ generated = "None") => Len(tried) = Len(services_to_try)

\* two invocations raised and None was returned
C14_Witness ==
    /\ rpc = "returned"
    /\ generated = "None"
    /\ Cardinality({i \in DOMAIN tried : tried[i].outcome = "raised"}) = 2

\* the service was invoked and its invocation raised
InvokedAndFailed(i) == i \in DOMAIN tried /\ tried[i].outcome = "raised"

\* C15, as claimed: None is returned only if every service of the attempt
\* order that has an instantiated client was invoked and failed; a known
\* service without a client is skipped, not invoked.
C15_NoneOnlyAfterEveryClientFailed ==
    /\ (rpc = "returned" /\ generated = "None") =>
          \A i \in DOMAIN services_to_try :
              (services_to_try[i] \in KnownServices /\ services_to_try[i] \in clients)
                  => InvokedAndFailed(i)
    /\ \A i \in DOMAIN tried :
          (tried[i].name \in KnownServices /\ tried[i].name \notin clients)
              => tried[i].outcome = "no client"

\* C15, amended: None is returned only if every service of the attempt order
\* that has an instantiated client (and, for azure, a deployment name) was
\* invoked and failed; a known service without a client, and azure without a
\* deployment name, are skipped, not invoked.
C15_NoneOnlyAfterEveryInvocableFailed ==
    /\ (rpc = "returned" /\ generated = "None") =>
          \A i \in DOMAIN services_to_try :
              (/\ services_to_try[i] \in KnownServices
               /\ services_to_try[i] \in clients
               /\ services_to_try[i] = "azure" => deployment_name)
                  => InvokedAndFailed(i)
    /\ \A i \in DOMAIN tried :
          /\ (tried[i].name \in KnownServices /\ tried[i].name \notin clients)
                => tried[i].outcome = "no client"
          /\ (tried[i].name = "azure" /\ tried[i].name \in clients /\ ~deployment_name)
                => tried[i].outcome = "no deployment name"

\* None was returned after one service was skipped for want of a client,
\* azure was skipped for want of a deployment name, and one service failed
C15_Witness ==
    /\ rpc = "returned"
    /\ generated = "None"
    /\ \E i, j, k \in DOMAIN tried :
          /\ tried[i].outcome = "no client"
          /\ tried[j].outcome = "no deployment name"
          /\ tried[k].outcome = "raised"

(***************************************************************************)
(* Properties of _decide_competitor_action (checked under SpecDecide).     *)
(***************************************************************************)
\* C16, as claimed: with decision logic enabled, quote_tweet and retweet are
\* never returned for a candidate of negative sentiment, on the structured
\* path or on the fallback path, and negative sentiment alone does not
\* prevent repost (relevance at or above the repost threshold) or like.
C16_NegativeNeverQuotedOrRetweeted ==
    (dpc = "returned" /\ decision_enabled /\ candidate_sentiment = "negative") =>
        /\ decided \notin {"quote_tweet", "retweet"}
        /\ decided \in {"repost", "like"}

(***************************************************************************)
(* Properties of run and the account tasks (checked under SpecRun).        *)
(***************************************************************************)
\* the task ran to its end: it returned, or its exception became its result
RanToCompletion(a) == task_pc[a] \in {"done", "failed"}

\* C17: when account tasks run concurrently and one of them faults
\* (malformed configuration, or an exception anywhere in its processing), the
\* fault is caught and reported at the boundary of that task, no task is ever
\* cancelled, and under every interleaving every task runs to completion.
C17_FaultOfOneTaskIsIsolated ==
    /\ [](\A a \in Accounts : task_pc[a] # "cancelled")
    /\ [](\A a \in Accounts : fault[a] \in {"configuration", "exception"} => reported[a])
    /\ [](run_pc \notin {"raised"})
    /\ [](run_pc = "finished" =>
            \A a \in Accounts : RanToCompletion(a) /\ (fault[a] # "none" => reported[a]))
    /\ <>[](run_pc = "finished" /\ \A a \in Accounts : RanToCompletion(a))

\* run finished after the processing of one account raised, while the task
\* of an active sibling passed an await and returned without fault
C17_Witness ==
    /\ run_pc = "finished"
    /\ \E a, c \in Accounts :
          /\ fault[a] = "exception" /\ reported[a]
          /\ fault[c] = "none" /\ account_config[c] = "active" /\ task_pc[c] = "done"
          /\ awaits[c] > 0

(***************************************************************************)
(* Properties of the action flows (checked under SpecFlow).                *)
(***************************************************************************)
\* C18, as claimed: in every action flow, each executor invocation is
\* preceded by a membership check of the action's key in the dedup set, and
\* each successful invocation is at once followed by persisting that key.
C18_EveryFlowChecksAndPersists ==
    /\ fpc = "invoke" => flow_candidate.checked
    /\ flow_last.outcome = "success" =>
          /\ flow_last.checked
          /\ flow_last.key \in processed_action_keys
          /\ flow_last.key \in store

(***************************************************************************)
(* Properties of the requests of one generate_guarded_reply call (checked  *)
(* under SpecCall).                                                        *)
(***************************************************************************)
\* a request apart from the feedback of its instruction
WithoutCorrection(req) == [req EXCEPT !.task_instruction.correction = None]

\* C21: the instruction of attempt 1 carries no failure feedback, the
\* instruction of attempt k > 1 carries exactly the failure reason of attempt
\* k-1, and apart from that feedback the instruction, the schema, the media
\* payload and the call parameters are the same across the attempts of a call.
C21_OnlyTheFeedbackChangesBetweenAttempts ==
    [][calls' = calls + 1 =>
          /\ request'.task_instruction.correction =
                (IF calls = 0 THEN None ELSE FailureOf(last_response))
          /\ feedback' = request'.task_instruction.correction
          /\ calls > 0 => WithoutCorrection(request') = WithoutCorrection(request)]_vars

\* a second attempt was asked with the off-topic failure of the first one, in
\* a call with style cues, media and caller-supplied banned terms
C21_Witness ==
    /\ calls = 2
    /\ request.task_instruction.correction.msg = "Reply referenced off-topic terms"
    /\ request.task_instruction.style_cues = "dry, short sentences"
    /\ request.inline_media # <<>>
    /\ Len(request.task_instruction.banned_terms) > Len(DEFAULT_OFF_TOPIC_TERMS)

\* the terms of the merged list that the caller supplied
SuppliedTerms == {banned_terms[i] : i \in (Len(DEFAULT_OFF_TOPIC_TERMS) + 1)..Len(banned_terms)}

\* the term appears in the tweet text or is one of the focus keywords
LicensedByTweet(term) ==
    \/ Contains(LowerStr(ContextText(text_content)), LowerStr(term))
    \/ LowerStr(term) \in AllowedTerms(ContextText(text_content), ContextKeywords(text_content))

\* C22: an accepted reply never contains a caller-supplied banned term
\* (compared case-insensitively) unless the tweet text or the focus keywords
\* hold that term.
C22_AcceptedReplyHasNoSuppliedBannedTerm ==
    result.status = "accepted" =>
        \A term \in SuppliedTerms :
            Contains(LowerStr(result.text), LowerStr(term)) => LicensedByTweet(term)

(***************************************************************************)
(* Properties of the main loop of the session (checked under Spec).        *)
(***************************************************************************)
\* the positions at which the task fetches, generates or calls the executor,
\* or is about to
Working == {"loop", "cooldown", "scan", "generate", "pace", "exec"}

\* C23: each of the three terminal conditions ends the session: when the clock
\* has reached session_end at the top of the loop, when a fetch returns an
\* empty batch (no walk is ever started on an empty batch), or when the walk
\* of a batch finishes without a successful action, the next position is
\* "ended"; from "ended" the session makes no fetch, generation or executor
\* call any more (only a new process can start).
C23_TerminalConditionsEndTheSession ==
    [][/\ (pc = "loop" /\ replies_sent_total < total_cap /\ now >= session_end)
              => pc' = "ended"
       /\ (pc = "loop" /\ pc' = "scan") => scored_candidates' # <<>>
       /\ (pc = "scan" /\ (scored_candidates = <<>> \/ CapsReached)
                       /\ ~made_reply_this_batch)
              => pc' = "ended"
       /\ pc = "ended"
              => /\ pc' \notin Working
                 /\ execLog' \in {execLog, <<>>}
                 /\ (pc' = "ended" \/ sessions' = sessions + 1)]_vars

\* a session that replied once ended on a later batch whose walk produced no
\* reply
C23_Witness ==
    /\ pc = "ended"
    /\ replies_sent_total = 1
    /\ replies_sent_total < total_cap
    /\ now < session_end
    /\ scored_candidates = <<>>
    /\ ~made_reply_this_batch

\* The collaborators return and the clock advances: the account task always
\* takes its next step.
\* one session of one orchestrator process
LiveNext ==
    \/ StartSession /\ UNCHANGED notSched
    \/ SessionCapReached /\ UNCHANGED notSched
    \/ SessionTimeUp /\ UNCHANGED notSched
    \/ CooldownStart /\ UNCHANGED notSched
    \/ CooldownWake /\ UNCHANGED notSched
    \/ FetchBatch /\ UNCHANGED notSched
    \/ FetchEmpty /\ UNCHANGED notSched
    \/ ScanSkip /\ UNCHANGED notSched
    \/ ScanSelect /\ UNCHANGED notSched
    \/ ScanEnd /\ UNCHANGED notSched
    \/ GenerateNothing /\ UNCHANGED notSched
    \/ GenerateReply /\ UNCHANGED notSched
    \/ PaceAndInvoke /\ UNCHANGED notSched
    \/ ReplySucceeded /\ UNCHANGED notSched
    \/ ReplyFailed /\ UNCHANGED notSched
    \/ ReplyRaised /\ UNCHANGED notSched

SessionFairness == WF_vars(LiveNext)

SpecLive == Init /\ [][LiveNext]_vars /\ SessionFairness

\* C24: when every collaborator call returns, a home-timeline session that is
\* in its main loop eventually reaches the terminal position: the loop cannot
\* iterate forever.
C24_SessionEventuallyEnds == (pc \in Working) ~> (pc = "ended")

\* a session ended after it went through an hourly reset and reached its cap
C24_Witness ==
    /\ pc = "ended"
    /\ replies_per_hour = 1
    /\ max_hours = 2
    /\ replies_sent_total = total_cap
    /\ current_hour_start > 0

\* the task is at the top of the loop with the hour counter at the cap of an
\* hour window that is still open, and session time remains
AtHourCap ==
    /\ pc = "loop"
    /\ replies_sent_total < total_cap
    /\ now < session_end
    /\ now - current_hour_start < HourSeconds
    /\ replies_this_hour >= replies_per_hour

\* min(time until the next hour boundary, remaining session time)
CooldownSeconds == Min(current_hour_start + HourSeconds - now, session_end - now)

\* C25: when the hour counter has reached replies_per_hour and session time
\* remains, the task goes to sleep without a fetch or an executor call, the
\* sleep lasts min(time until the next hour boundary, remaining session time)
\* (or longer, never shorter), and after it current_hour_start is the current
\* time, replies_this_hour is zero and replies_sent_total is unchanged.
C25_HourCapCoolsDownThenResets ==
    [][/\ AtHourCap
          => /\ pc' = "cooldown"
             /\ CooldownSeconds > 0
             /\ UNCHANGED <<now, scored_candidates, execLog, current_hour_start,
                            replies_this_hour, replies_sent_total>>
       /\ pc = "cooldown"
          => /\ pc' = "loop"
             /\ now' >= now + CooldownSeconds
             /\ current_hour_start' = now'
             /\ replies_this_hour' = 0
             /\ UNCHANGED <<replies_sent_total, scored_candidates, execLog>>]_vars

\* the task is back at the top of the loop after a cooldown of a full hour,
\* with session time left
C25_Witness ==
    /\ pc = "loop"
    /\ replies_sent_total = replies_per_hour
    /\ replies_this_hour = 0
    /\ current_hour_start = now
    /\ now >= HourSeconds
    /\ now < session_end

\* the positions of the walk of a batch
Walking == {"scan", "generate", "pace", "exec"}

\* C26: a successful executor call adds exactly one to replies_sent_total and
\* to replies_this_hour, persists the action key and adds it to the in-memory
\* set, and ends the walk of the batch; while a batch is walked no success has
\* happened in it, so a fetched batch sees at most one successful action.
C26_OneSuccessPerBatch ==
    /\ [](pc \in Walking => ~made_reply_this_batch)
    /\ [][(pc = "exec" /\ made_reply_this_batch')
             => /\ replies_sent_total' = replies_sent_total + 1
                /\ replies_this_hour' = replies_this_hour + 1
                /\ action_key(candidate) \in store'
                /\ action_key(candidate) \in processed_action_keys'
                /\ store' = store \cup {action_key(candidate)}
                /\ pc' \notin Walking
                /\ UNCHANGED <<candidate, execLog>>]_vars

\* a success left candidates of its batch unwalked
C26_Witness ==
    /\ pc = "loop"
    /\ made_reply_this_batch
    /\ scored_candidates # <<>>
    /\ ~Skipped(Head(scored_candidates))
    /\ action_key(candidate) \in store
    /\ replies_sent_total = 1

\* the tweets the walk of the batch has still to go through
Unwalked == {scored_candidates[i] : i \in DOMAIN scored_candidates}

C28_CandidateFailureNeverAbortsScan ==
    [][(\/ (pc = "generate" /\ pc' # "pace")
        \/ (pc = "exec" /\ ~made_reply_this_batch'))
          => /\ pc' = "scan"
             /\ scored_candidates' = scored_candidates]_vars

\* C29: in a session the executor invocations are sequential (one position of
\* the task holds the call in flight, and the next call starts from another
\* position, after the previous one returned); next_reply_earliest is left
\* alone when a call starts and is set when a call has returned, to at least
\* the effective minimum spacing after that return (a cooldown can only move
\* it forward); so between the return of one invocation and the start of the
\* next at least spacing_min_seconds elapse.
C29_SpacingBetweenReturnAndNextStart ==
    [][/\ (pc = "pace" /\ pc' = "exec")
            => /\ next_reply_earliest' = next_reply_earliest
               /\ now' >= next_reply_earliest
               /\ (attempt_completed_at # NotYet
                      => now' - attempt_completed_at
                            >= spacing_min_seconds(replies_per_hour, min_delay))
       /\ (pc = "exec" /\ pc' # "ended")
            => /\ attempt_completed_at' = now'
               /\ next_reply_earliest'
                     >= now' + spacing_min_seconds(replies_per_hour, min_delay)
       /\ (pc \notin {"idle", "exec", "ended"})
            => /\ next_reply_earliest' >= next_reply_earliest
               /\ (next_reply_earliest' # next_reply_earliest
                      => pc = "cooldown" /\ attempt_completed_at # NotYet)
       /\ pc' = "exec" => pc = "pace"]_vars

\* a second executor call of the session is in flight; it started exactly
\* the effective minimum spacing after the first one, which failed, returned
C29_Witness ==
    /\ pc = "exec"
    /\ replies_sent_total = 0
    /\ attempt_completed_at # NotYet
    /\ attempt_completed_at > 0
    /\ now - attempt_completed_at = spacing_min_seconds(replies_per_hour, min_delay)

(***************************************************************************)
(* Properties of the pacing parameters (checked under SpecPacing).         *)
(***************************************************************************)
Paced == ppc \in {"paced", "drawn"}

\* the range is not degenerate and a drawn delay is not below its minimum
RangeNotDegenerate ==
    /\ pacing.spacing_max_seconds - pacing.spacing_min_seconds >= 1
    /\ ppc = "drawn" => delay_drawn >= pacing.spacing_min_seconds

\* C30: for all configured replies per hour, min delay and max delay, the
\* effective minimum spacing is max(minDelay, 3600 / actionsPerHour), the
\* effective maximum is at least one second above it, and every drawn delay is
\* at least the effective minimum.
C30_SpacingFromConfiguredValues ==
    Paced =>
        /\ action_config.home_timeline_replies_per_hour # 0
              => pacing.spacing_min_seconds
                    = Max(action_config.min_delay_between_actions_seconds,
                          HourSeconds \div action_config.home_timeline_replies_per_hour)
        /\ RangeNotDegenerate

\* C30, amended: the effective minimum spacing is max(max(10, minDelay),
\* 3600 / max(1, actionsPerHour or 10)); the effective maximum is at least one
\* second above it, and every drawn delay is at least the effective minimum.
C30_SpacingFromClampedValues ==
    Paced =>
        /\ pacing.spacing_min_seconds
              = Max(Max(MinDelayFloor, action_config.min_delay_between_actions_seconds),
                    HourSeconds \div
                        Max(1, IF action_config.home_timeline_replies_per_hour = 0
                               THEN DefaultRepliesPerHour
                               ELSE action_config.home_timeline_replies_per_hour))
        /\ RangeNotDegenerate

\* 720 replies per hour, no min delay and a max delay of 10 seconds: the
\* spacing is the floor of 10 seconds, the max delay was raised above it, and
\* the delay drawn is the minimum
C30_Witness ==
    /\ ppc = "drawn"
    /\ action_config.home_timeline_replies_per_hour = 720
    /\ action_config.min_delay_between_actions_seconds = 0
    /\ action_config.max_delay_between_actions_seconds = 10
    /\ pacing.spacing_min_seconds = MinDelayFloor
    /\ pacing.spacing_max_seconds > 10
    /\ delay_drawn = pacing.spacing_min_seconds

(***************************************************************************)
(* Properties of the walk of a batch (checked under Spec).                 *)
(***************************************************************************)
\* the guarded generation or the executor is running, or about to, for the
\* candidate
InHand == pc \in {"generate", "pace", "exec"}

\* C31: during the walk of a batch the guarded generation and the executor
\* never run for a candidate without identifier, for a candidate whose author
\* handle is the account's own, or for a candidate whose action key is in the
\* dedup set.
C31_SkippedCandidateNeverProcessed ==
    InHand =>
        /\ candidate.tweet_id # ""
        /\ NormalizeHandle(candidate.user_handle) # NormalizeHandle(account_id)
        /\ ActionKey("home_reply", account_id, candidate.tweet_id) \notin processed_action_keys

\* the executor runs for t2 in a process that loaded the key of t1 from the
\* store, while an own tweet or a tweet without identifier would rank higher
C31_Witness ==
    /\ pc = "exec"
    /\ sessions = 2
    /\ candidate.tweet_id = "t2"
    /\ ActionKey("home_reply", account_id, "t1") \in processed_action_keys
    /\ \E t \in Tweets : Skipped(t) /\ _score_home_timeline_tweet(t)
                                          > _score_home_timeline_tweet(candidate)

(***************************************************************************)
(* Properties of the action decision (checked under SpecDecide).           *)
(***************************************************************************)
\* the call returned, decision logic was on and the structured analysis
\* carried a recommended action
DecidedWithRecommendation ==
    dpc = "returned" /\ decision_enabled /\ structured.kind = "mapping"

\* the decision is the one of the threshold fallback
FallbackDecided ==
    decided = (IF fallback_relevance >= decision_thresholds.quote
                    /\ fallback_sentiment \in {"positive", "neutral"} THEN "quote_tweet"
               ELSE IF fallback_relevance >= decision_thresholds.retweet
                    /\ fallback_sentiment \in {"positive", "neutral"} THEN "retweet"
               ELSE IF fallback_relevance >= decision_thresholds.repost THEN "repost"
               ELSE "like")

\* C32: with decision logic on and a structured result that carries a
\* recommended action: below the repost threshold the decision is like;
\* otherwise a recommendation that is one of quote_tweet, retweet, repost,
\* like is the decision, exactly; otherwise the threshold fallback decides.
C32_StructuredRecommendationAsGiven ==
    DecidedWithRecommendation =>
        IF structured.relevance < decision_thresholds.repost THEN decided = "like"
        ELSE IF structured.recommended_action \in {"quote_tweet", "retweet", "repost", "like"}
             THEN decided = structured.recommended_action
        ELSE FallbackDecided

\* C32, amended: the recommendation is compared after lower-casing, and the
\* decision is the lower-cased recommendation.
C32_StructuredRecommendationLowerCased ==
    DecidedWithRecommendation =>
        IF structured.relevance < decision_thresholds.repost THEN decided = "like"
        ELSE IF LowerAction(structured.recommended_action)
                    \in {"quote_tweet", "retweet", "repost", "like"}
             THEN decided = LowerAction(structured.recommended_action)
        ELSE FallbackDecided

\* a recommendation to quote a tweet of relevance 0.34, just below the
\* default repost threshold, was overridden
C32_Witness ==
    /\ DecidedWithRecommendation
    /\ decision_thresholds.repost = DefaultRepostMin
    /\ structured.relevance = 34
    /\ structured.recommended_action = "quote_tweet"
    /\ decided = "like"

\* the call went through the fallback: decision logic was on and the
\* structured analysis carried no recommendation the call could return
FallbackRan ==
    /\ dpc = "returned"
    /\ decision_enabled
    /\ \/ structured.kind # "mapping"
       \/ /\ structured.relevance >= decision_thresholds.repost
          /\ LowerAction(structured.recommended_action)
                \notin {"quote_tweet", "retweet", "repost", "like"}

\* C33: on the fallback path the decision is the first match of: relevance
\* at least the quote threshold and sentiment positive or neutral gives
\* quote_tweet; relevance at least the retweet threshold and sentiment
\* positive or neutral gives retweet; relevance at least the repost threshold
\* gives repost; otherwise like.  The sentiment is the classifier's when it
\* is used and returns, and neutral when it raises.
C33_FallbackOrderedChecks ==
    FallbackRan =>
        /\ FallbackDecided
        /\ classifier = "raised" => fallback_sentiment = "neutral"
        /\ classifier = "value" => fallback_sentiment = candidate_sentiment

\* the classifier raised on a candidate of negative sentiment and relevance
\* 0.75, and the candidate is quoted
C33_Witness ==
    /\ FallbackRan
    /\ use_sentiment
    /\ classifier = "raised"
    /\ candidate_sentiment = "negative"
    /\ decision_thresholds.quote = DefaultQuoteMin
    /\ fallback_relevance = 75
    /\ decided = "quote_tweet"

\* a call of _decide_competitor_action has read its configuration
ThresholdsRead == dpc \in {"configured", "fallback", "returned"}

\* C34, as claimed: each threshold is the candidate's override if present,
\* else the account's value, else the global value, else the default
\* (quote 0.75, retweet 0.5, repost 0.35).
C34_CandidateOverrideFirst ==
    ThresholdsRead =>
        /\ decision_thresholds.quote =
              IF tweet_thresholds.quote # -1 THEN tweet_thresholds.quote
              ELSE IF account_thresholds.quote # -1 THEN account_thresholds.quote
              ELSE IF global_thresholds.quote # -1 THEN global_thresholds.quote
              ELSE 75
        /\ decision_thresholds.retweet =
              IF tweet_thresholds.retweet # -1 THEN tweet_thresholds.retweet
              ELSE IF account_thresholds.retweet # -1 THEN account_thresholds.retweet
              ELSE IF global_thresholds.retweet # -1 THEN global_thresholds.retweet
              ELSE 50
        /\ decision_thresholds.repost =
              IF tweet_thresholds.repost # -1 THEN tweet_thresholds.repost
              ELSE IF account_thresholds.repost # -1 THEN account_thresholds.repost
              ELSE IF global_thresholds.repost # -1 THEN global_thresholds.repost
              ELSE 35

\* C34, amended: each threshold is the account's value if it is set, else the
\* global value if it is set, else the default (quote 0.75, retweet 0.5,
\* repost 0.35); nothing carried by the candidate is consulted.
C34_AccountThenGlobalThenDefault ==
    ThresholdsRead =>
        /\ decision_thresholds.quote =
              IF account_thresholds.quote # -1 THEN account_thresholds.quote
              ELSE IF global_thresholds.quote # -1 THEN global_thresholds.quote
              ELSE 75
        /\ decision_thresholds.retweet =
              IF account_thresholds.retweet # -1 THEN account_thresholds.retweet
              ELSE IF global_thresholds.retweet # -1 THEN global_thresholds.retweet
              ELSE 50
        /\ decision_thresholds.repost =
              IF account_thresholds.repost # -1 THEN account_thresholds.repost
              ELSE IF global_thresholds.repost # -1 THEN global_thresholds.repost
              ELSE 35

\* the three levels in one call: the quote threshold of the account (0.9)
\* over the global one (0.8), the retweet threshold of the global settings
\* (0.55), the default repost threshold; a relevance of 0.75 is retweeted
C34_Witness ==
    /\ dpc = "returned"
    /\ decision_enabled
    /\ account_thresholds = [quote |-> 90, retweet |-> -1, repost |-> -1]
    /\ global_thresholds = [quote |-> 80, retweet |-> 55, repost |-> -1]
    /\ decision_thresholds = [quote |-> 90, retweet |-> 55, repost |-> 35]
    /\ structured.kind # "mapping"
    /\ fallback_relevance = 75
    /\ decided = "retweet"

(***************************************************************************)
(* Properties of the keyword extraction (checked under SpecKeywords).      *)
(***************************************************************************)
\* the tokens of the text that count: longer than two characters, no stopword
CountedTokens ==
    {t \in Range(_tokenize(keyword_text)) : Len(t) > 2 /\ t \notin _STOPWORDS}

\* how often a token occurs in the text
Frequency(t) ==
    Cardinality({k \in 1..Len(_tokenize(keyword_text)) : _tokenize(keyword_text)[k] = t})

\* the order of the claim: more frequent first, then longer first, then
\* lexicographically smaller first
RankedBefore(a, b) ==
    \/ Frequency(a) > Frequency(b)
    \/ Frequency(a) = Frequency(b) /\ Len(a) > Len(b)
    \/ Frequency(a) = Frequency(b) /\ Len(a) = Len(b) /\ StrGreater(b, a)

\* C35: the keywords returned are the top max_keywords of the counted
\* tokens, by frequency descending; among tokens of equal frequency the
\* longer comes first, and among tokens of equal frequency and length the
\* lexicographically smaller comes first.
C35_KeywordsLongerThenSmallerFirst ==
    kpc = "returned" =>
        /\ Range(top_tokens) \subseteq CountedTokens
        /\ Len(top_tokens) = Min(keyword_limit, Cardinality(CountedTokens))
        /\ \A i, j \in 1..Len(top_tokens) : i < j => RankedBefore(top_tokens[i], top_tokens[j])
        /\ \A t \in CountedTokens \ Range(top_tokens) :
              \A i \in 1..Len(top_tokens) : RankedBefore(top_tokens[i], t)

(***************************************************************************)
(* Properties of the style snapshot (checked under SpecSnapshot).          *)
(***************************************************************************)
\* C36: the context text returned by build_style_snapshot has at most 800
\* characters, the ellipsis added on truncation included.
C36_ContextTextAtMost800 ==
    snap_pc = "returned" => Len(style_context_text) <= 800

(***************************************************************************)
(* Properties of the shared key set (checked under SpecShared).            *)
(***************************************************************************)
\* C37, as claimed: whatever the account identifiers, kinds and tweet
\* identifiers, a key recorded by the task of one account never makes the
\* task of another account pass a candidate over.
C37_KeysOfAccountsNeverCollide ==
    key_skipped # NoKeySkipped =>
        \A r \in key_records : r.key = key_skipped.key => r.account = key_skipped.account

\* C37, amended: for tweet identifiers that hold no underscore (such as the
\* numeric ones), a key recorded by the task of one account never makes the
\* task of another account pass a candidate over.
C37_KeysOfNumericTweetsNeverCollide ==
    (key_skipped # NoKeySkipped /\ key_skipped.tweet_id \in NumericTweetIds) =>
        \A r \in key_records :
            (r.key = key_skipped.key /\ r.tweet_id \in NumericTweetIds)
                => r.account = key_skipped.account

\* both accounts liked tweet 2, and account a_1 passed it over on its own key
C37_Witness ==
    /\ key_skipped = [account |-> "a_1", kind |-> "like", tweet_id |-> "2",
                      key |-> "like_a_1_2"]
    /\ [account |-> "a_1", tweet_id |-> "2", key |-> "like_a_1_2"] \in key_records
    /\ [account |-> "a", tweet_id |-> "2", key |-> "like_a_2"] \in key_records

\* C38: in a session the executor is never invoked at or after session_end,
\* the start of the session plus max_hours, a pacing wait before the
\* invocation included.
C38_NoInvocationAtOrAfterSessionEnd ==
    pc = "exec" => execLog[Len(execLog)].at < session_end

(***************************************************************************)
(* Properties of the community engagement (checked under SpecCommunity).   *)
(***************************************************************************)
\* C39: in one community-engagement run the successful actions counted by
\* the run (likes, retweets and replies) never exceed
\* max_community_engagements_per_run.
C39_CommunityActionsWithinCap ==
    total_community_actions <= community_config.max_community_engagements_per_run

(***************************************************************************)
(* Properties of reply_to_tweet (checked under SpecHandler).               *)
(***************************************************************************)
\* the verification saw, in the conversation, a reply link of the account
\* that the conversation did not hold before the submission
NewReplySeen == links_seen \ conversation_links # {}

\* C40: when the handle of the account is known, reply_to_tweet returns True
\* only if the conversation shows, after the submission, a reply link by
\* the handle that the conversation did not hold before the submission, and
\* returns False when no such link is detected.
C40_TrueOnlyForNewReplyInConversation ==
    (hpc = "returned" /\ primary_handle # NoHandle) =>
        /\ handler_result = "True" => NewReplySeen
        /\ ~NewReplySeen => handler_result = "False"

====
